---- MODULE Spec2Model ----
(***************************************************************************)
(* mzsvg: the coordinate model (CoordinateRange, Scale), the tick label    *)
(* formatter, the colour cycle and the plot series of the chart renderer.  *)
(***************************************************************************)
EXTENDS Integers, Sequences, FiniteSets, TLC

VARIABLES
    numeric,    \* the arithmetic of T: "exact" (real numbers) or "rounded" (binary floating point)
    crange,     \* the CoordinateRange under call: [start, end]
    value,      \* the argument of the call
    pixels,     \* the range of the Scale of the last call (its domain is crange), or "none"
    style,      \* the AxisTickLabelStyle of the last call: [kind, p], or "none"
    call,       \* the last operation applied ("none" before the first)
    res,        \* what the last operation returned
    colors,     \* ColorCycle.colors: the palette
    index,      \* ColorCycle.index: the cursor
    returned,   \* what the calls of ColorCycle::next returned so far, in call order
    series,     \* the plot series under call (a record with its kind), or "none"
    last,       \* the last call on the series: [op, start, end, before, narrowed]
    rendered,   \* the Group the last call returned if it was to_svg, else "none"
    axisArgs,   \* the axis under call: [props, scale, canvas], or "none"
    drawn,      \* what AxisProps::to_svg returned for it: <<>> before the call, then <<group>>
    chart,      \* the chart (a record with its kind: SpectrumSVG, FeatureSVG, SpectrumSVG_v1), or "none"
    outcome,    \* the last call on the chart: [op, arg, status, message, calls, before]
    document,   \* the Document the last call returned if it was make_document, else <<>>
    canvasCall, \* the call of Canvas::transform under way: [canvas, x, y], or "none"
    pixel       \* what Canvas::transform returned for it: <<>> before the call, then <<(px, py)>>

linearVars == <<numeric, crange, value, pixels, style, call, res>>

colorVars == <<colors, index, returned>>

seriesVars == <<series, last, rendered>>

axisVars == <<axisArgs, drawn>>

chartVars == <<chart, outcome, document>>

canvasVars == <<canvasCall, pixel>>

vars == <<linearVars, colorVars, seriesVars, axisVars, chartVars, canvasVars>>

\* the variables a call of the coordinate model leaves alone
offLinear == <<colorVars, seriesVars, axisVars, chartVars, canvasVars>>

\* the variables a call of the colour cycle leaves alone
offColor == <<linearVars, seriesVars, axisVars, chartVars, canvasVars>>

\* the variables a call on a plot series leaves alone
offSeries == <<linearVars, colorVars, axisVars, chartVars, canvasVars>>

\* the variables the rendering of an axis leaves alone
offAxis == <<linearVars, colorVars, seriesVars, chartVars, canvasVars>>

\* the variables a call on a chart leaves alone
offChart == <<linearVars, colorVars, seriesVars, axisVars, canvasVars>>

\* the variables a call of Canvas::transform leaves alone
offCanvas == <<colorVars, seriesVars, axisVars, chartVars>>

\* no call of the coordinate model is under way
LinearIdle ==
    /\ numeric = "exact"
    /\ crange = "none"
    /\ value = "none"
    /\ pixels = "none"
    /\ style = "none"
    /\ call = "none"
    /\ res = "none"

\* no colour cycle exists
ColorIdle ==
    /\ colors = <<>>
    /\ index = 0
    /\ returned = <<>>

\* no plot series exists
SeriesIdle ==
    /\ series = "none"
    /\ last = "none"
    /\ rendered = "none"

\* no axis is being rendered
AxisIdle ==
    /\ axisArgs = "none"
    /\ drawn = "none"

\* no chart exists
ChartIdle ==
    /\ chart = "none"
    /\ outcome = "none"
    /\ document = "none"

\* no canvas is under call
CanvasIdle ==
    /\ canvasCall = "none"
    /\ pixel = "none"

(***************************************************************************)
(* Bounds of the model.                                                    *)
(***************************************************************************)
\* coordinates of the input grid are the integers -1 .. MaxCoord
MaxCoord == 4
\* significand width, in bits, of the rounded arithmetic (24 for f32, 53 for f64)
MantissaBits == 5
\* the tick label styles carry a number of decimals 0 .. MaxDecimals
MaxDecimals == 2
\* ColorCycle::next is called at most MaxNext times on one cycle
MaxNext == 50
\* a series is built from at most MaxPoints points of the grid
MaxPoints == 3
\* at most MaxCalls calls are made on one chart
MaxCalls == 3

(***************************************************************************)
(* Values of a type T: Float.  A value is a pair <<n, d>>: with d > 0 the  *)
(* finite number n/d in lowest terms, and with d = 0 one of the specials   *)
(* <<1, 0>> = +inf, <<-1, 0>> = -inf, <<0, 0>> = NaN.  The sign of zero is *)
(* not kept.                                                               *)
(***************************************************************************)
Abs(i) == IF i < 0 THEN -i ELSE i

Sign(i) == IF i < 0 THEN -1 ELSE IF i > 0 THEN 1 ELSE 0

RECURSIVE Gcd(_, _)
Gcd(a, b) == IF b = 0 THEN a ELSE Gcd(b, a % b)

\* n/d with the common factor g taken out
Reduced(n, d, g) == <<n \div g, d \div g>>

\* n/d in lowest terms with a positive denominator (d # 0)
Rat(n, d) == Reduced(Sign(d) * n, Abs(d), Gcd(Abs(n), Abs(d)))

F(i) == <<i, 1>>

NaN == <<0, 0>>

PosInf == <<1, 0>>

NegInf == <<-1, 0>>

IsNaN(a) == a = NaN

IsFinite(a) == a[2] # 0

IsZero(a) == a[2] # 0 /\ a[1] = 0

\* the quotient q or q + 1, whichever is nearer given the remainder r of a
\* division by den, and the even one of the two at a tie
NearestEven(q, r, den) ==
    IF 2 * r < den THEN q
    ELSE IF 2 * r > den THEN q + 1
    ELSE IF q % 2 = 0 THEN q ELSE q + 1

\* round-half-to-even of num/den (num >= 0, den > 0) to an integer
RoundHalfEven(num, den) == NearestEven(num \div den, num % den, den)

\* the binary exponent e with 2^(bits-1) <= (a/d) / 2^e < 2^bits  (a, d > 0)
RECURSIVE NormExp(_, _, _)
NormExp(a, d, bits) ==
    IF a < (2 ^ (bits - 1)) * d THEN NormExp(2 * a, d, bits) - 1
    ELSE IF a >= (2 ^ bits) * d THEN NormExp(a, 2 * d, bits) + 1
    ELSE 0

\* 2^e for e >= 0, and 1 for e < 0
Pow2(e) == IF e >= 0 THEN 2 ^ e ELSE 1

\* the nonzero finite number q rounded to a multiple of up/down, ties to even
RoundToMultiple(q, up, down) ==
    Rat(Sign(q[1]) * RoundHalfEven(Abs(q[1]) * down, q[2] * up) * up, down)

\* the nonzero finite number q rounded to a multiple of 2^e, ties to even
RoundAt(q, e) == RoundToMultiple(q, Pow2(e), Pow2(-e))

\* the finite number q rounded to the nearest number with a significand of
\* `bits` bits, ties to even; the exponent range is not bounded
RoundTo(q, bits) ==
    IF q[1] = 0 THEN q ELSE RoundAt(q, NormExp(Abs(q[1]), q[2], bits))

\* exact arithmetic of finite numbers
\* (the common factors are taken out before the products are formed)
QAddOver(a, b, g) ==
    Rat(a[1] * (b[2] \div g) + b[1] * (a[2] \div g), (a[2] \div g) * b[2])

QAdd(a, b) == QAddOver(a, b, Gcd(a[2], b[2]))

QSub(a, b) == QAdd(a, <<-b[1], b[2]>>)

QMulOver(a, b, g1, g2) ==
    Rat((a[1] \div g1) * (b[1] \div g2), (a[2] \div g2) * (b[2] \div g1))

QMul(a, b) == QMulOver(a, b, Gcd(Abs(a[1]), b[2]), Gcd(Abs(b[1]), a[2]))

QDiv(a, b) == QMul(a, Rat(b[2], b[1]))

QLe(a, b) ==
    LET g == Gcd(a[2], b[2])
    IN  a[1] * (b[2] \div g) <= b[1] * (a[2] \div g)

QAbs(a) == <<Abs(a[1]), a[2]>>

\* the result of an arithmetic operation of T as it is stored
Fl(q) == IF numeric = "rounded" THEN RoundTo(q, MantissaBits) ELSE q

FNeg(a) == <<-a[1], a[2]>>

FAdd(a, b) ==
    IF IsNaN(a) \/ IsNaN(b) THEN NaN
    ELSE IF a[2] = 0 /\ b[2] = 0 THEN (IF a = b THEN a ELSE NaN)
    ELSE IF a[2] = 0 THEN a
    ELSE IF b[2] = 0 THEN b
    ELSE Fl(QAdd(a, b))

FSub(a, b) == FAdd(a, FNeg(b))

FMul(a, b) ==
    IF IsNaN(a) \/ IsNaN(b) THEN NaN
    ELSE IF a[2] = 0 \/ b[2] = 0
         THEN (IF a[1] = 0 \/ b[1] = 0 THEN NaN
               ELSE <<Sign(a[1]) * Sign(b[1]), 0>>)
    ELSE Fl(QMul(a, b))

FDiv(a, b) ==
    IF IsNaN(a) \/ IsNaN(b) THEN NaN
    ELSE IF a[2] = 0 /\ b[2] = 0 THEN NaN
    ELSE IF a[2] = 0 THEN <<Sign(a[1]) * (IF b[1] < 0 THEN -1 ELSE 1), 0>>
    ELSE IF b[2] = 0 THEN F(0)
    ELSE IF b[1] = 0 THEN (IF a[1] = 0 THEN NaN ELSE <<Sign(a[1]), 0>>)
    ELSE Fl(QDiv(a, b))

\* the comparisons of PartialOrd: every comparison with NaN is false
FLt(a, b) ==
    /\ ~IsNaN(a)
    /\ ~IsNaN(b)
    /\ IF a[2] = 0 /\ b[2] = 0 THEN a[1] < b[1]
       ELSE IF a[2] = 0 \/ b[2] = 0 THEN a[1] * b[2] < b[1] * a[2]
       ELSE ~QLe(b, a)

FLe(a, b) == ~IsNaN(a) /\ ~IsNaN(b) /\ ~FLt(b, a)

FGt(a, b) == FLt(b, a)

FGe(a, b) == FLe(b, a)

\* Float::min and Float::max: a NaN operand is ignored
FMin(a, b) == IF IsNaN(a) THEN b ELSE IF IsNaN(b) THEN a ELSE IF FLt(b, a) THEN b ELSE a

FMax(a, b) == IF IsNaN(a) THEN b ELSE IF IsNaN(b) THEN a ELSE IF FLt(a, b) THEN b ELSE a

FAbs(a) == <<Abs(a[1]), a[2]>>

(***************************************************************************)
(* CoordinateRange and Scale (linear.rs).                                  *)
(***************************************************************************)
CoordinateRange_new(start, end) == [start |-> start, end |-> end]

CoordinateRange_is_well_formed(c) ==
    (IsFinite(c.start) /\ ~IsNaN(c.start)) /\ (IsFinite(c.end) /\ ~IsNaN(c.end))

CoordinateRange_size(c) == FSub(c.end, c.start)

\* a transform that divides by the unsigned size
CoordinateRange_transform_unsigned(c, v) ==
    FDiv(FSub(v, c.start), FAbs(CoordinateRange_size(c)))

CoordinateRange_transform(c, v) == FDiv(FSub(v, c.start), CoordinateRange_size(c))

\* an inverse transform that offsets by the other bound
CoordinateRange_inverse_transform_from_end(c, p) ==
    FAdd(FMul(p, CoordinateRange_size(c)), c.end)

CoordinateRange_inverse_transform(c, p) ==
    FAdd(FMul(p, CoordinateRange_size(c)), c.start)

CoordinateRange_min(c) == FMin(c.start, c.end)

CoordinateRange_max(c) == FMax(c.start, c.end)

\* a clamp that takes start for the lower and end for the upper bound
CoordinateRange_clamp_unoriented(c, v) ==
    IF FLt(v, c.start) THEN c.start
    ELSE IF FGt(v, c.end) THEN c.end
    ELSE v

CoordinateRange_clamp(c, v) ==
    LET lohi == IF FLt(c.start, c.end) THEN <<c.start, c.end>> ELSE <<c.end, c.start>>
    IN  IF FLt(v, lohi[1]) THEN lohi[1]
        ELSE IF FGt(v, lohi[2]) THEN lohi[2]
        ELSE v

Scale_new(domain, range) == [domain |-> domain, range |-> range]

Scale_is_well_formed(s) ==
    CoordinateRange_is_well_formed(s.domain) /\ CoordinateRange_is_well_formed(s.range)

Scale_transform(s, v) ==
    LET i == CoordinateRange_transform(s.domain, v)
    IN  CoordinateRange_inverse_transform(s.range, i)

Scale_inverse_transform(s, v) ==
    LET i == CoordinateRange_transform(s.range, v)
    IN  CoordinateRange_inverse_transform(s.domain, i)

(***************************************************************************)
(* Text.  A String is a sequence of one-character strings.                 *)
(***************************************************************************)
Digit == <<"0", "1", "2", "3", "4", "5", "6", "7", "8", "9">>

\* the decimal digits of the natural number n
RECURSIVE Digits(_)
Digits(n) == IF n < 10 THEN <<Digit[n + 1]>> ELSE Digits(n \div 10) \o <<Digit[(n % 10) + 1]>>

\* the decimal digits of n, left-padded with zeros to width w
RECURSIVE ZeroPad(_, _)
ZeroPad(ds, w) == IF Len(ds) >= w THEN ds ELSE ZeroPad(<<"0">> \o ds, w)

\* Display of an integer
IntToString(i) == IF i < 0 THEN <<"-">> \o Digits(-i) ELSE Digits(i)

\* "{:.p}" of a float: p decimals, the exact value rounded half to even, the
\* sign kept when the digits round to zero
FormatFixed(q, p) ==
    IF IsNaN(q) THEN <<"N", "a", "N">>
    ELSE IF q = PosInf THEN <<"i", "n", "f">>
    ELSE IF q = NegInf THEN <<"-", "i", "n", "f">>
    ELSE LET n == RoundHalfEven(Abs(q[1]) * (10 ^ p), q[2])
             whole == Digits(n \div (10 ^ p))
             frac == IF p = 0 THEN <<>> ELSE <<".">> \o ZeroPad(Digits(n % (10 ^ p)), p)
         IN  (IF q[1] < 0 THEN <<"-">> ELSE <<>>) \o whole \o frac

\* the decimal exponent e with 10^e <= a/d < 10^(e+1)  (a, d > 0)
RECURSIVE Exp10(_, _)
Exp10(a, d) ==
    IF a < d THEN Exp10(10 * a, d) - 1
    ELSE IF a >= 10 * d THEN Exp10(a, 10 * d) + 1
    ELSE 0

\* "{:.pe}" of a float: one digit, p decimals, "e" and the decimal exponent
FormatLowerExp(q, p) ==
    IF IsNaN(q) THEN <<"N", "a", "N">>
    ELSE IF q = PosInf THEN <<"i", "n", "f">>
    ELSE IF q = NegInf THEN <<"-", "i", "n", "f">>
    ELSE IF q[1] = 0 THEN FormatFixed(q, p) \o <<"e", "0">>
    ELSE LET a == Abs(q[1])
             e == Exp10(a, q[2])
             n == IF e >= p THEN RoundHalfEven(a, q[2] * (10 ^ (e - p)))
                            ELSE RoundHalfEven(a * (10 ^ (p - e)), q[2])
             carry == n >= 10 ^ (p + 1)
             m == IF carry THEN n \div 10 ELSE n
             ex == IF carry THEN e + 1 ELSE e
             frac == IF p = 0 THEN <<>> ELSE <<".">> \o ZeroPad(Digits(m % (10 ^ p)), p)
         IN  (IF q[1] < 0 THEN <<"-">> ELSE <<>>) \o Digits(m \div (10 ^ p)) \o frac
                 \o <<"e">> \o IntToString(ex)

\* "{}" of a float whose decimal expansion ends: the fewest decimals that
\* give the value back
FormatDisplay(q) ==
    LET p == CHOOSE k \in 0 .. 4 :
                /\ (q[1] * (10 ^ k)) % q[2] = 0
                /\ \A j \in 0 .. k - 1 : (q[1] * (10 ^ j)) % q[2] # 0
    IN  FormatFixed(q, p)

(***************************************************************************)
(* AxisTickLabelStyle::format (v2/chart_regions.rs, and the same in        *)
(* axes.rs).                                                               *)
(***************************************************************************)
Precision(p) == [kind |-> "Precision", p |-> p]

SciNot(p) == [kind |-> "SciNot", p |-> p]

Percentile(p) == [kind |-> "Percentile", p |-> p]

\* a format whose percentages are taken of the end of the domain
AxisTickLabelStyle_format_of_end(st, v, scale) ==
    CASE st.kind = "Precision" -> FormatFixed(v, st.p)
      [] st.kind = "SciNot" -> FormatLowerExp(v, st.p)
      [] st.kind = "Percentile" ->
            FormatFixed(FMul(FDiv(v, scale.end), F(100)), st.p) \o <<"%">>

AxisTickLabelStyle_format(st, v, scale) ==
    CASE st.kind = "Precision" -> FormatFixed(v, st.p)
      [] st.kind = "SciNot" -> FormatLowerExp(v, st.p)
      [] st.kind = "Percentile" ->
            LET percent == FMul(FDiv(v, CoordinateRange_max(scale)), F(100))
            IN  FormatFixed(percent, st.p) \o <<"%">>

(***************************************************************************)
(* ColorCycle (v2/series.rs; series.rs holds the same code with a palette  *)
(* of eight colours).                                                      *)
(***************************************************************************)
DEFAULT_COLOR_CYCLE ==
    <<"black", "steelblue", "blueviolet", "midnightblue", "lightseagreen",
      "limegreen", "goldenrod", "firebrick", "crimson">>

DEFAULT_COLOR_CYCLE_v1 ==
    <<"steelblue", "blueviolet", "midnightblue", "lightseagreen",
      "limegreen", "goldenrod", "firebrick", "crimson">>

ColorCycle_default(palette) == [colors |-> palette, index |-> 0]

\* Vec::get: Some(element) inside the vector, None outside
VecGet(vec, i) == IF i >= 0 /\ i < Len(vec) THEN [some |-> TRUE, v |-> vec[i + 1]] ELSE [some |-> FALSE]

\* a next() that never takes the cursor back to the start of the palette
ColorCycle_next_without_reset(cc) ==
    [cycle |-> [colors |-> cc.colors, index |-> cc.index + 1], item |-> VecGet(cc.colors, cc.index)]

\* next(): the cycle after the call and the Option<String> returned
ColorCycle_next(cc) ==
    LET at == IF cc.index + 1 >= Len(cc.colors) THEN 0 ELSE cc.index
    IN  [cycle |-> [colors |-> cc.colors, index |-> at + 1], item |-> VecGet(cc.colors, at)]

InitColor ==
    /\ LinearIdle
    /\ SeriesIdle
    /\ AxisIdle
    /\ ChartIdle
    /\ CanvasIdle
    /\ \E palette \in {DEFAULT_COLOR_CYCLE, DEFAULT_COLOR_CYCLE_v1} :
            /\ colors = ColorCycle_default(palette).colors
            /\ index = ColorCycle_default(palette).index
    /\ returned = <<>>

ColorNext ==
    /\ Len(returned) < MaxNext
    /\ LET r == ColorCycle_next([colors |-> colors, index |-> index])
       IN  /\ colors' = r.cycle.colors
           /\ index' = r.cycle.index
           /\ returned' = Append(returned, r.item)
    /\ UNCHANGED offColor

NextColor == ColorNext

SpecColor == InitColor /\ [][NextColor]_vars

(***************************************************************************)
(* Properties of the colour cycle.                                         *)
(***************************************************************************)
\* C4: from a fresh cycle over a palette of N colours the first colour is
\* returned again exactly at call N + 1 of next(), and at no earlier call
\* after the first.
FirstColorAgainAfterPalette ==
    \A k \in 2 .. Len(returned) :
        k <= Len(colors) + 1 =>
            ((returned[k].some /\ returned[k].v = colors[1]) <=> k = Len(colors) + 1)

\* C5: next() yields the palette round-robin: call k returns palette entry
\* ((k - 1) mod N) + 1, so every entry once per pass, in palette order, and
\* never None.
RoundRobin ==
    \A k \in 1 .. Len(returned) :
        /\ returned[k].some
        /\ returned[k].v = colors[((k - 1) % Len(colors)) + 1]

(***************************************************************************)
(* Calls of the coordinate model on one range, one scale and one value.    *)
(***************************************************************************)
GridCoords == {F(i) : i \in -1 .. MaxCoord}

GridValues == {F(i) : i \in -2 .. MaxCoord + 1} \cup {<<1, 2>>, <<5, 2>>}

PixelRanges == {CoordinateRange_new(F(a), F(b)) : a, b \in {0, 3, 6}}

\* the calls of the unit tests of linear.rs and of the documented examples
ExampleCalls ==
    { <<CoordinateRange_new(F(0), F(100)), F(50)>>,
      <<CoordinateRange_new(F(0), F(100)), F(150)>>,
      <<CoordinateRange_new(F(20), F(120)), F(70)>>,
      <<CoordinateRange_new(F(100), F(0)), F(20)>>,
      <<CoordinateRange_new(F(10000), F(0)), F(2500)>>,
      <<CoordinateRange_new(F(0), F(10000)), F(2500)>> }

GridCalls == {<<CoordinateRange_new(a, b), v>> : <<a, b>> \in GridCoords \X GridCoords, v \in GridValues}

InitCalls(calls, numerics) ==
    /\ ColorIdle
    /\ SeriesIdle
    /\ AxisIdle
    /\ ChartIdle
    /\ CanvasIdle
    /\ numeric \in numerics
    /\ \E c \in calls : crange = c[1] /\ value = c[2]
    /\ pixels = "none"
    /\ style = "none"
    /\ call = "none"
    /\ res = "none"

InitLinear == InitCalls(GridCalls \cup ExampleCalls, {"exact"})

Transform ==
    /\ call' = "transform"
    /\ res' = CoordinateRange_transform(crange, value)
    /\ pixels' = "none"
    /\ style' = "none"
    /\ UNCHANGED <<numeric, crange, value>>
    /\ UNCHANGED offLinear

\* inverse_transform applied to the position transform returned
InverseTransform ==
    /\ call = "transform"
    /\ call' = "inverse_transform"
    /\ res' = CoordinateRange_inverse_transform(crange, res)
    /\ UNCHANGED <<numeric, crange, pixels, value, style>>
    /\ UNCHANGED offLinear

\* transform of the Scale from crange onto one of the pixel ranges
ScaleTransform ==
    /\ pixels' \in PixelRanges
    /\ call' = "Scale.transform"
    /\ res' = Scale_transform(Scale_new(crange, pixels'), value)
    /\ style' = "none"
    /\ UNCHANGED <<numeric, crange, value>>
    /\ UNCHANGED offLinear

\* Scale::inverse_transform applied to the coordinate Scale::transform returned
ScaleInverseTransform ==
    /\ call = "Scale.transform"
    /\ call' = "Scale.inverse_transform"
    /\ res' = Scale_inverse_transform(Scale_new(crange, pixels), res)
    /\ UNCHANGED <<numeric, crange, pixels, value, style>>
    /\ UNCHANGED offLinear

Clamp ==
    /\ call' = "clamp"
    /\ res' = CoordinateRange_clamp(crange, value)
    /\ pixels' = "none"
    /\ style' = "none"
    /\ UNCHANGED <<numeric, crange, value>>
    /\ UNCHANGED offLinear

Format ==
    /\ \E k \in {"Precision", "SciNot", "Percentile"}, p \in 0 .. MaxDecimals :
            /\ style' = [kind |-> k, p |-> p]
            /\ res' = AxisTickLabelStyle_format(style', value, crange)
    /\ call' = "format"
    /\ pixels' = "none"
    /\ UNCHANGED <<numeric, crange, value>>
    /\ UNCHANGED offLinear

NextLinear ==
    \/ Transform
    \/ InverseTransform
    \/ ScaleTransform
    \/ ScaleInverseTransform
    \/ Clamp
    \/ Format

SpecLinear == InitLinear /\ [][NextLinear]_vars

\* the round trips of the coordinate model, in real and in rounded arithmetic
InitFloat == InitCalls(GridCalls, {"exact", "rounded"})

NextRoundTrip ==
    \/ Transform
    \/ InverseTransform
    \/ ScaleTransform
    \/ ScaleInverseTransform

SpecFloat == InitFloat /\ [][NextRoundTrip]_vars

(***************************************************************************)
(* Properties of CoordinateRange and Scale.                                *)
(***************************************************************************)
NonDegenerate(c) == CoordinateRange_is_well_formed(c) /\ c.start # c.end

\* the statement of C1 as written: the round trip returns exactly v
RoundTripExact ==
    /\ (call = "inverse_transform" /\ NonDegenerate(crange) => res = value)
    /\ (call = "Scale.inverse_transform" /\ NonDegenerate(crange) /\ NonDegenerate(pixels)
            => res = value)

\* C1 (amended): on a non-degenerate CoordinateRange, and on a Scale with a
\* non-degenerate domain and range, inverse_transform(transform(v)) equals v
\* in real arithmetic; in arithmetic rounded to a significand of
\* MantissaBits bits the result is finite and differs from v by rounding
\* error only: by at most 5 * 2^-MantissaBits * (|v| + |start|) for the
\* range, and by at most 2^-MantissaBits * (8 * (|v| + |domain.start|) +
\* 2 * |x| * |domain size| / |range size|) for the scale, x being the
\* transformed value.
RoundTripWithinRounding ==
    LET u == <<1, 2 ^ MantissaBits>>
        err == QAbs(QSub(res, value))
        x == Scale_transform(Scale_new(crange, pixels), value)
    IN  /\ numeric = "exact" => RoundTripExact
        /\ numeric = "rounded" /\ call = "inverse_transform" /\ NonDegenerate(crange)
            => /\ IsFinite(res)
               /\ QLe(err, QMul(u, QMul(F(5), QAdd(QAbs(value), QAbs(crange.start)))))
        /\ numeric = "rounded" /\ call = "Scale.inverse_transform"
                /\ NonDegenerate(crange) /\ NonDegenerate(pixels)
            => /\ IsFinite(res)
               /\ QLe(err,
                      QMul(u, QAdd(QMul(F(8), QAdd(QAbs(value), QAbs(crange.start))),
                                   QMul(F(2), QDiv(QMul(QAbs(x), QAbs(QSub(crange.end, crange.start))),
                                                   QAbs(QSub(pixels.end, pixels.start)))))))

\* a rounded round trip through an inverted scale that misses v
RoundTripRounded ==
    /\ numeric = "rounded"
    /\ call = "Scale.inverse_transform"
    /\ NonDegenerate(crange)
    /\ NonDegenerate(pixels)
    /\ FGt(crange.start, crange.end)
    /\ res # value

\* the lesser and the greater bound of a range of finite bounds
LowerBound(c) == IF QLe(c.start, c.end) THEN c.start ELSE c.end

UpperBound(c) == IF QLe(c.start, c.end) THEN c.end ELSE c.start

\* C2: on a range with start # end, of either orientation, transform(v) is
\* the position p with p * (end - start) = v - start: start maps to 0, end
\* maps to 1, a value outside the interval maps outside [0, 1] (no clamping),
\* range (100, 0) maps 20 to 0.8 and range (0, 100) maps 150 to 1.5.
TransformIsLinear ==
    call = "transform" /\ NonDegenerate(crange) =>
        /\ IsFinite(res)
        /\ QMul(res, QSub(crange.end, crange.start)) = QSub(value, crange.start)
        /\ (value = crange.start => res = F(0))
        /\ (value = crange.end => res = F(1))
        /\ (~QLe(LowerBound(crange), value) \/ ~QLe(value, UpperBound(crange))
                => ~QLe(F(0), res) \/ ~QLe(res, F(1)))
        /\ (crange = CoordinateRange_new(F(100), F(0)) /\ value = F(20) => res = <<4, 5>>)
        /\ (crange = CoordinateRange_new(F(0), F(100)) /\ value = F(150) => res = <<3, 2>>)

\* transform on the inverted range (100, 0) of the unit test
TransformInverted ==
    /\ call = "transform"
    /\ crange = CoordinateRange_new(F(100), F(0))
    /\ value = F(20)
    /\ res = <<4, 5>>

\* C3: clamp(v) lies in [min(start, end), max(start, end)] whichever way the
\* range is oriented: it is v inside the interval, the lower bound below it
\* and the upper bound above it.
ClampRestricts ==
    call = "clamp" =>
        /\ QLe(LowerBound(crange), res)
        /\ QLe(res, UpperBound(crange))
        /\ (QLe(LowerBound(crange), value) /\ QLe(value, UpperBound(crange)) => res = value)
        /\ (~QLe(LowerBound(crange), value) => res = LowerBound(crange))
        /\ (~QLe(value, UpperBound(crange)) => res = UpperBound(crange))

\* clamp on an inverted range cuts a value above the interval to start
ClampInverted ==
    /\ call = "clamp"
    /\ ~QLe(crange.start, crange.end)
    /\ ~QLe(value, crange.start)
    /\ res = crange.start

(***************************************************************************)
(* Properties of the tick labels.                                          *)
(***************************************************************************)
DigitValue(ch) == CHOOSE i \in 0 .. 9 : Digit[i + 1] = ch

RECURSIVE DigitsValue(_)
DigitsValue(ds) ==
    IF ds = <<>> THEN 0
    ELSE 10 * DigitsValue(SubSeq(ds, 1, Len(ds) - 1)) + DigitValue(ds[Len(ds)])

IsDigits(ds) == \A i \in 1 .. Len(ds) : \E k \in 1 .. 10 : Digit[k] = ds[i]

\* an unsigned decimal numeral with exactly p decimals (no point when p = 0)
IsNumeral(txt, p) ==
    IF p = 0 THEN Len(txt) >= 1 /\ IsDigits(txt)
    ELSE /\ Len(txt) >= p + 2
         /\ txt[Len(txt) - p] = "."
         /\ IsDigits(SubSeq(txt, 1, Len(txt) - p - 1))
         /\ IsDigits(SubSeq(txt, Len(txt) - p + 1, Len(txt)))

\* the number an unsigned numeral with p decimals reads as
NumeralValue(txt, p) ==
    IF p = 0 THEN F(DigitsValue(txt))
    ELSE Rat(DigitsValue(SubSeq(txt, 1, Len(txt) - p - 1)) * (10 ^ p)
                + DigitsValue(SubSeq(txt, Len(txt) - p + 1, Len(txt))), 10 ^ p)

\* C8: Percentile(p).format(v, domain) is the numeral of |100 * v / m| with
\* exactly p decimals (the nearest one), a leading "-" when v / m < 0 and a
\* trailing "%", m = max(start, end) being the greater bound of the domain in
\* either orientation (m # 0); the tick at m reads 100 and v = 2500 in
\* (10000, 0) or (0, 10000) with p = 2 reads "25.00%".
PercentileLabel ==
    call = "format" /\ style.kind = "Percentile" /\ UpperBound(crange) # F(0) =>
        LET m == UpperBound(crange)
            pct == QMul(F(100), QDiv(value, m))
            neg == pct[1] < 0
            body == SubSeq(res, IF neg THEN 2 ELSE 1, Len(res) - 1)
        IN  /\ Len(res) >= 2
            /\ res[Len(res)] = "%"
            /\ (neg <=> res[1] = "-")
            /\ IsNumeral(body, style.p)
            /\ QLe(QMul(F(2 * (10 ^ style.p)), QAbs(QSub(NumeralValue(body, style.p), QAbs(pct)))), F(1))
            /\ (value = m => NumeralValue(body, style.p) = F(100))
            /\ (value = F(2500) /\ m = F(10000) /\ style.p = 2
                    => res = <<"2", "5", ".", "0", "0", "%">>)

\* the documented label on the inverted intensity domain (10000, 0)
PercentileExample ==
    /\ call = "format"
    /\ style = Percentile(2)
    /\ crange = CoordinateRange_new(F(10000), F(0))
    /\ value = F(2500)
    /\ res = <<"2", "5", ".", "0", "0", "%">>

(***************************************************************************)
(* SVG nodes (crate svg).  A node is [tag, attrs, nodes]: attrs is the     *)
(* attribute map, nodes the children in the order they were added.  Path   *)
(* data is the sequence of its commands: [cmd, at] with cmd one of "M"     *)
(* (move_to), "L" (line_to), "z" (close).  Numbers stay numbers: a         *)
(* coordinate is the value the transform returned.                         *)
(***************************************************************************)
Node_new(tag) == [tag |-> tag, attrs |-> <<>>, nodes |-> <<>>]

Group_new == Node_new("g")

Node_set(node, name, v) == [node EXCEPT !.attrs = (name :> v) @@ node.attrs]

Node_add(node, child) == [node EXCEPT !.nodes = Append(node.nodes, child)]

PathData_new == <<>>

PathData_move_to(state, at) == Append(state, [cmd |-> "M", at |-> at])

PathData_line_to(state, at) == Append(state, [cmd |-> "L", at |-> at])

PathData_close(state) == Append(state, [cmd |-> "z", at |-> <<>>])

(***************************************************************************)
(* v2/chart_regions.rs: the canvas a series is drawn on.                   *)
(***************************************************************************)
Canvas_new(width, height) ==
    [width |-> width, height |-> height,
     x_axis |-> [scale |-> Scale_new(CoordinateRange_new(F(0), F(width)), CoordinateRange_new(F(0), F(width)))],
     y_axis |-> [scale |-> Scale_new(CoordinateRange_new(F(0), F(height)), CoordinateRange_new(F(0), F(height)))],
     groups |-> <<>>]

\* update_scales that also takes the pixel range of x from its domain
Canvas_update_scales_and_range(canvas, x_range, y_range) ==
    [canvas EXCEPT !.x_axis.scale.domain = x_range, !.x_axis.scale.range = x_range,
                   !.y_axis.scale.domain = y_range]

Canvas_update_scales(canvas, x_range, y_range) ==
    [canvas EXCEPT !.x_axis.scale.domain = x_range, !.y_axis.scale.domain = y_range]

\* a transform that sends x through the scale of y and y through the scale of x
Canvas_transform_crossed(canvas, x, y) ==
    <<Scale_transform(canvas.y_axis.scale, x), Scale_transform(canvas.x_axis.scale, y)>>

Canvas_transform(canvas, x, y) ==
    <<Scale_transform(canvas.x_axis.scale, x), Scale_transform(canvas.y_axis.scale, y)>>

TextProps_default ==
    [text_size |-> F(1), horizontal_alignment |-> "middle", font_family |-> "serif", color |-> "black"]

TextProps_text(props, text) ==
    Node_set(Node_set(Node_set(Node_set(
        [tag |-> "text", attrs |-> <<>>, nodes |-> <<text>>],
        "font-family", props.font_family),
        "text-anchor", props.horizontal_alignment),
        "font-size", FormatDisplay(props.text_size) \o <<"e", "m">>),
        "fill", props.color)

(***************************************************************************)
(* axes.rs: the axes of the first generation renderer.                     *)
(***************************************************************************)
XAxis_new(coordinates, label, scale) == [coordinates |-> coordinates, label |-> label, scale |-> scale]

XAxis_transform(axis, v) == FMul(CoordinateRange_transform(axis.coordinates, v), axis.scale)

YAxis_new(coordinates, label, scale) == [coordinates |-> coordinates, label |-> label, scale |-> scale]

YAxis_transform(axis, v) == FMul(CoordinateRange_transform(axis.coordinates, v), axis.scale)

(***************************************************************************)
(* v2/series.rs: the plot series.  A series is a record that carries its   *)
(* kind; PlotSeries_* are the trait's methods.  A point is <<x, y>>, with  *)
(* a third component (the text, the radius) where the kind has one; a peak *)
(* is [mz, intensity].                                                     *)
(***************************************************************************)
RECURSIVE SetAll(_, _)
\* a chain of .set(name, value) calls
SetAll(node, sets) ==
    IF sets = <<>> THEN node
    ELSE SetAll(Node_set(node, Head(sets)[1], Head(sets)[2]), Tail(sets))

SeriesDescription_new(label, color) == [label |-> label, color |-> color, tag |-> ""]

SeriesDescription_from(label) == SeriesDescription_new(label, "black")

SeriesDescription_series_type(d) == d.label

SeriesDescription_id(d) == d.label \o "-" \o d.tag

\* the x of the element min_by(|a, b| a.0.partial_cmp(&b.0)) selects
MinX(points) ==
    LET xs == {points[i][1] : i \in DOMAIN points}
    IN  CHOOSE m \in xs : \A x \in xs : FLe(m, x)

\* the x of the element max_by(|a, b| a.0.partial_cmp(&b.0)) selects
MaxX(points) ==
    LET xs == {points[i][1] : i \in DOMAIN points}
    IN  CHOOSE m \in xs : \A x \in xs : FGe(m, x)

LineSeries_new(points, description) ==
    [kind |-> "Line", points |-> points, description |-> description]

\* the polyline through path_data, in its group
LineSeries_group(s, path_data) ==
    SetAll(Node_add(Group_new,
                    SetAll(Node_new("polyline"),
                        << <<"points", path_data>>, <<"fill", "none">>,
                           <<"stroke", s.description.color>>, <<"stroke-width", 1>> >>)),
        << <<"class", s.description.label>>, <<"id", SeriesDescription_id(s.description)>> >>)

LineSeries_to_svg(s, canvas) ==
    LineSeries_group(s, [i \in 1 .. Len(s.points) |->
                            <<Scale_transform(canvas.x_axis.scale, s.points[i][1]),
                              Scale_transform(canvas.y_axis.scale, s.points[i][2])>>])

LineSeries_slice_x(s, start, end) ==
    LET keep(p) == FGe(p[1], start) /\ FLe(p[1], end)
    IN  [s EXCEPT !.points = SelectSeq(s.points, keep)]

LineSeries_slice_y(s, start, end) ==
    LET keep(p) == FGe(p[2], start) /\ FLe(p[2], end)
    IN  [s EXCEPT !.points = SelectSeq(s.points, keep)]

ContinuousSeries_new(points, description) ==
    [kind |-> "Continuous", points |-> points, description |-> description]

\* the path starts under the first point instead of under the smallest x
ContinuousSeries_to_svg_from_first(s, canvas) ==
    LET first_mz == IF s.points = <<>> THEN F(0) ELSE s.points[1][1]
        start == IF s.points = <<>> THEN PathData_new
                 ELSE PathData_move_to(PathData_new,
                        <<Scale_transform(canvas.x_axis.scale, first_mz),
                          Scale_transform(canvas.y_axis.scale, F(0))>>)
        lines == [i \in 1 .. Len(s.points) |->
                    [cmd |-> "L", at |-> Canvas_transform(canvas, s.points[i][1], s.points[i][2])]]
        path == SetAll(Node_new("path"), << <<"fill", "none">>, <<"d", PathData_close(start \o lines)>> >>)
    IN  SetAll(Node_add(Group_new, path),
            << <<"stroke", s.description.color>>, <<"stroke-width", 1>>,
               <<"class", SeriesDescription_series_type(s.description)>>,
               <<"id", SeriesDescription_id(s.description)>> >>)

\* the fold moves to the baseline under min_mz before the first point
\* (i == 0) and draws a line to every point, in the order of the list
\* the closed path with the data d, in its group
ContinuousSeries_group(s, d) ==
    SetAll(Node_add(Group_new, SetAll(Node_new("path"), << <<"fill", "none">>, <<"d", d>> >>)),
        << <<"stroke", s.description.color>>, <<"stroke-width", 1>>,
           <<"class", SeriesDescription_series_type(s.description)>>,
           <<"id", SeriesDescription_id(s.description)>> >>)

\* a move to (min_mz, 0) when there is a point, then a line to every point in
\* list order, then the close
ContinuousSeries_to_svg(s, canvas) ==
    ContinuousSeries_group(s, PathData_close(
        (IF s.points = <<>> THEN PathData_new
         ELSE PathData_move_to(PathData_new,
                <<Scale_transform(canvas.x_axis.scale, MinX(s.points)),
                  Scale_transform(canvas.y_axis.scale, F(0))>>))
        \o [i \in 1 .. Len(s.points) |->
               [cmd |-> "L", at |-> Canvas_transform(canvas, s.points[i][1], s.points[i][2])]]))

ContinuousSeries_slice_x(s, start, end) ==
    LET keep(p) == FGe(p[1], start) /\ FLe(p[1], end)
    IN  [s EXCEPT !.points = SelectSeq(s.points, keep)]

ContinuousSeries_slice_y(s, start, end) ==
    LET keep(p) == FGe(p[2], start) /\ FLe(p[2], end)
    IN  [s EXCEPT !.points = SelectSeq(s.points, keep)]

AnnotationSeries_new(points, description, text_props) ==
    [kind |-> "Annotation", points |-> points, description |-> description, text_props |-> text_props]

AnnotationSeries_to_svg(s, canvas) ==
    [Group_new EXCEPT !.nodes =
        [i \in 1 .. Len(s.points) |->
            Node_add(Node_set(Group_new, "transform",
                              <<"translate">> \o Canvas_transform(canvas, s.points[i][1], s.points[i][2])),
                         TextProps_text(s.text_props, s.points[i][3]))]]

AnnotationSeries_slice_x(s, start, end) ==
    LET keep(p) == FGe(p[1], start) /\ FLe(p[1], end)
    IN  [s EXCEPT !.points = SelectSeq(s.points, keep)]

AnnotationSeries_slice_y(s, start, end) ==
    LET keep(p) == FGe(p[2], start) /\ FLe(p[2], end)
    IN  [s EXCEPT !.points = SelectSeq(s.points, keep)]

RECURSIVE peaks_to_arrays_loop(_, _)
\* the for loop: three pushes per peak
peaks_to_arrays_loop(peaks, points) ==
    IF peaks = <<>> THEN points
    ELSE LET xd == Rat(1, 10000)
             yz == F(0)
             mz == Head(peaks).mz
             intens == Head(peaks).intensity
         IN  peaks_to_arrays_loop(Tail(peaks),
                Append(Append(Append(points, <<FSub(mz, xd), yz>>), <<mz, intens>>), <<FAdd(mz, xd), yz>>))

\* the flanking zeros are left out: one point per peak
peaks_to_arrays_apex_only(peaks) == [k \in 1 .. Len(peaks) |-> <<peaks[k].mz, peaks[k].intensity>>]

peaks_to_arrays(peaks) == peaks_to_arrays_loop(peaks, <<>>)

RECURSIVE InsertByMz(_, _)
InsertByMz(sorted, peak) ==
    IF sorted = <<>> THEN <<peak>>
    ELSE IF FLt(peak.mz, Head(sorted).mz) THEN <<peak>> \o sorted
    ELSE <<Head(sorted)>> \o InsertByMz(Tail(sorted), peak)

RECURSIVE SortByMz(_)
\* a stable sort by m/z
SortByMz(peaks) ==
    IF peaks = <<>> THEN <<>>
    ELSE InsertByMz(SortByMz(SubSeq(peaks, 1, Len(peaks) - 1)), peaks[Len(peaks)])

\* collect() into an MZPeakSetType: the set is kept in m/z order
MZPeakSetType_from_iter(peaks) == SortByMz(peaks)

\* collect() into a MassPeakSetType: the set is kept in neutral mass order,
\* the order its peaks are listed in here
MassPeakSetType_from_iter(peaks) == peaks

CentroidSeries_new(peaks, description) ==
    [kind |-> "Centroid", peaks |-> peaks, description |-> description]

CentroidSeries_to_svg(s, canvas) ==
    ContinuousSeries_to_svg(ContinuousSeries_new(peaks_to_arrays(s.peaks), s.description), canvas)

CentroidSeries_slice_x(s, start, end) ==
    LET keep(p) == FGe(p.mz, start) /\ FLe(p.mz, end)
    IN  [s EXCEPT !.peaks = MZPeakSetType_from_iter(SelectSeq(s.peaks, keep))]

CentroidSeries_slice_y(s, start, end) ==
    LET keep(p) == FGe(p.intensity, start) /\ FLe(p.intensity, end)
    IN  [s EXCEPT !.peaks = MZPeakSetType_from_iter(SelectSeq(s.peaks, keep))]

DeconvolutedCentroidSeries_new(peaks, description) ==
    [kind |-> "DeconvolutedCentroid", peaks |-> peaks, description |-> description]

\* the peaks are sorted by m/z before they are expanded
DeconvolutedCentroidSeries_to_svg(s, canvas) ==
    ContinuousSeries_to_svg(ContinuousSeries_new(peaks_to_arrays(SortByMz(s.peaks)), s.description),
                            canvas)

DeconvolutedCentroidSeries_slice_x(s, start, end) ==
    LET keep(p) == FGe(p.mz, start) /\ FLe(p.mz, end)
    IN  [s EXCEPT !.peaks = MassPeakSetType_from_iter(SelectSeq(s.peaks, keep))]

DeconvolutedCentroidSeries_slice_y(s, start, end) ==
    LET keep(p) == FGe(p.intensity, start) /\ FLe(p.intensity, end)
    IN  [s EXCEPT !.peaks = MassPeakSetType_from_iter(SelectSeq(s.peaks, keep))]

\* Option<i32>
Some(v) == [some |-> TRUE, v |-> v]

None == [some |-> FALSE, v |-> 0]

\* None of an Option whose values are of the kind of v (a text, a list)
NoneOf(v) == [some |-> FALSE, v |-> v]

PrecursorSeries_new(mz, intensity, charge, description) ==
    [kind |-> "Precursor", mz |-> mz, intensity |-> intensity, charge |-> charge,
     in_frame |-> TRUE, description |-> description]

\* the label "mz, z" of the precursor: two decimals of m/z, the charge or 0
PrecursorSeries_label(s) ==
    FormatFixed(s.mz, 2) \o <<",", " ">> \o IntToString(IF s.charge.some THEN s.charge.v ELSE 0)

\* the label at (x, y) and the dashed line from (x, 0) to (x, y), in the root
\* group; a precursor out of frame gives the empty root group
PrecursorSeries_groups(s, canvas, x, y) ==
    IF ~s.in_frame THEN Group_new
    ELSE SetAll(
            Node_add(
                Node_add(Group_new,
                    SetAll(AnnotationSeries_to_svg(
                               AnnotationSeries_new(<< <<x, y, PrecursorSeries_label(s)>> >>,
                                   SeriesDescription_from("precursor-label"),
                                   [TextProps_default EXCEPT !.text_size = Rat(4, 5), !.color = "skyblue"]),
                               canvas),
                        << <<"stroke", "black">>, <<"stroke-width", "0.1pt">> >>)),
                SetAll(LineSeries_to_svg(
                           LineSeries_new(<< <<x, F(0)>>, <<x, y>> >>, SeriesDescription_from("precursor-line")),
                           canvas),
                    << <<"stroke-dasharray", 4>>, <<"stroke", s.description.color>>,
                       <<"stroke-width", "0.5pt">> >>)),
            << <<"class", "precursor">>, <<"id", SeriesDescription_id(s.description)>> >>)

\* y is 0.95 of the intensity, capped at the top of the y domain
PrecursorSeries_to_svg(s, canvas) ==
    PrecursorSeries_groups(s, canvas, s.mz,
        FMul(FMin(s.intensity, CoordinateRange_max(canvas.y_axis.scale.domain)), Rat(19, 20)))

\* the flag is only ever cleared: in_frame && (start <= mz && mz <= end)
PrecursorSeries_slice_x_sticky(s, start, end) ==
    [s EXCEPT !.in_frame = s.in_frame /\ FLe(start, s.mz) /\ FLe(s.mz, end)]

PrecursorSeries_slice_x(s, start, end) ==
    [s EXCEPT !.in_frame = FLe(start, s.mz) /\ FLe(s.mz, end)]

PrecursorSeries_slice_y(s, start, end) ==
    [s EXCEPT !.intensity = FMax(start, end)]

\* the points of a feature: its (time, intensity) pairs
TraceSeries_new(feature, description) ==
    [kind |-> "Trace", feature |-> feature,
     points |-> [i \in 1 .. Len(feature) |-> <<feature[i][2], feature[i][3]>>],
     description |-> description]

\* the filled path with the data d, in its group
TraceSeries_group(s, d) ==
    SetAll(Node_add(Group_new,
                    SetAll(Node_new("path"),
                        << <<"fill", s.description.color>>, <<"d", d>>, <<"fill-opacity", "75%">> >>)),
        << <<"stroke", "black">>, <<"stroke-width", 1>>,
           <<"class", SeriesDescription_series_type(s.description)>>,
           <<"id", SeriesDescription_id(s.description)>> >>)

\* a move to the baseline at `first` when there is a point, a line to each of
\* the points at `lines`, then lines to the baseline at `last` and back to
\* `first`, and the close
TraceSeries_path_data(s, points_at) ==
    PathData_close(PathData_line_to(PathData_line_to(
        (IF s.points = <<>> THEN PathData_new ELSE PathData_move_to(PathData_new, points_at.first))
        \o [i \in 1 .. Len(s.points) |-> [cmd |-> "L", at |-> points_at.lines[i]]],
        points_at.last), points_at.first))

\* the points of the feature on the canvas, and its first and last time at
\* intensity 0 (time 0 when there is no point), in this order: first, lines, last
TraceSeries_to_svg(s, canvas) ==
    TraceSeries_group(s, TraceSeries_path_data(s,
        [k \in {"first", "lines", "last"} |->
            IF k = "lines"
            THEN [i \in 1 .. Len(s.points) |-> Canvas_transform(canvas, s.points[i][1], s.points[i][2])]
            ELSE Canvas_transform(canvas,
                    IF s.points = <<>> THEN F(0)
                    ELSE IF k = "first" THEN MinX(s.points) ELSE MaxX(s.points),
                    F(0))]))

\* the kept points are added to the list instead of replacing it
TraceSeries_slice_x_extending(s, start, end) ==
    LET keep(p) == FGe(p[1], start) /\ FLe(p[1], end)
    IN  [s EXCEPT !.points = s.points \o SelectSeq(s.points, keep)]

TraceSeries_slice_x(s, start, end) ==
    LET keep(p) == FGe(p[1], start) /\ FLe(p[1], end)
    IN  [s EXCEPT !.points = SelectSeq(s.points, keep)]

TraceSeries_slice_y(s, start, end) ==
    LET keep(p) == FGe(p[2], start) /\ FLe(p[2], end)
    IN  [s EXCEPT !.points = SelectSeq(s.points, keep)]

ScatterSeries_new(points, description) ==
    [kind |-> "Scatter", points |-> points, description |-> description]

ScatterSeries_to_svg(s, canvas) ==
    SetAll([Group_new EXCEPT !.nodes =
                [i \in 1 .. Len(s.points) |->
                    SetAll(Node_new("circle"),
                        << <<"cx", Scale_transform(canvas.x_axis.scale, s.points[i][1])>>,
                           <<"cy", Scale_transform(canvas.y_axis.scale, s.points[i][2])>>,
                           <<"r", s.points[i][3]>> >>)]],
        << <<"class", SeriesDescription_series_type(s.description)>>,
           <<"id", SeriesDescription_id(s.description)>>,
           <<"fill", s.description.color>>, <<"stroke", "black">> >>)

\* the upper bound is exclusive
ScatterSeries_slice_x_half_open(s, start, end) ==
    LET keep(p) == FGe(p[1], start) /\ FLt(p[1], end)
    IN  [s EXCEPT !.points = SelectSeq(s.points, keep)]

ScatterSeries_slice_x(s, start, end) ==
    LET keep(p) == FGe(p[1], start) /\ FLe(p[1], end)
    IN  [s EXCEPT !.points = SelectSeq(s.points, keep)]

ScatterSeries_slice_y(s, start, end) ==
    LET keep(p) == FGe(p[2], start) /\ FLe(p[2], end)
    IN  [s EXCEPT !.points = SelectSeq(s.points, keep)]

\* trait PlotSeries: the method of the series' own kind
PlotSeries_to_svg(s, canvas) ==
    CASE s.kind = "Line" -> LineSeries_to_svg(s, canvas)
      [] s.kind = "Continuous" -> ContinuousSeries_to_svg(s, canvas)
      [] s.kind = "Annotation" -> AnnotationSeries_to_svg(s, canvas)
      [] s.kind = "Centroid" -> CentroidSeries_to_svg(s, canvas)
      [] s.kind = "DeconvolutedCentroid" -> DeconvolutedCentroidSeries_to_svg(s, canvas)
      [] s.kind = "Precursor" -> PrecursorSeries_to_svg(s, canvas)
      [] s.kind = "Trace" -> TraceSeries_to_svg(s, canvas)
      [] s.kind = "Scatter" -> ScatterSeries_to_svg(s, canvas)

PlotSeries_slice_x(s, start, end) ==
    CASE s.kind = "Line" -> LineSeries_slice_x(s, start, end)
      [] s.kind = "Continuous" -> ContinuousSeries_slice_x(s, start, end)
      [] s.kind = "Annotation" -> AnnotationSeries_slice_x(s, start, end)
      [] s.kind = "Centroid" -> CentroidSeries_slice_x(s, start, end)
      [] s.kind = "DeconvolutedCentroid" -> DeconvolutedCentroidSeries_slice_x(s, start, end)
      [] s.kind = "Precursor" -> PrecursorSeries_slice_x(s, start, end)
      [] s.kind = "Trace" -> TraceSeries_slice_x(s, start, end)
      [] s.kind = "Scatter" -> ScatterSeries_slice_x(s, start, end)

PlotSeries_slice_y(s, start, end) ==
    CASE s.kind = "Line" -> LineSeries_slice_y(s, start, end)
      [] s.kind = "Continuous" -> ContinuousSeries_slice_y(s, start, end)
      [] s.kind = "Annotation" -> AnnotationSeries_slice_y(s, start, end)
      [] s.kind = "Centroid" -> CentroidSeries_slice_y(s, start, end)
      [] s.kind = "DeconvolutedCentroid" -> DeconvolutedCentroidSeries_slice_y(s, start, end)
      [] s.kind = "Precursor" -> PrecursorSeries_slice_y(s, start, end)
      [] s.kind = "Trace" -> TraceSeries_slice_y(s, start, end)
      [] s.kind = "Scatter" -> ScatterSeries_slice_y(s, start, end)

(***************************************************************************)
(* series.rs: the continuous series of the first generation renderer.  It  *)
(* has the same points and the same slices; to_svg takes the two axes, and *)
(* unwraps the minimum, so it panics on an empty list.                     *)
(***************************************************************************)
Panic == Node_new("panic")

ContinuousSeries_to_svg_v1(s, xaxis, yaxis) ==
    IF s.points = <<>> THEN Panic
    ELSE LET min_mz == MinX(s.points)
             max_intens == F(100)
             start == PathData_move_to(PathData_new,
                        <<XAxis_transform(xaxis, min_mz), YAxis_transform(yaxis, F(0))>>)
             lines == [i \in 1 .. Len(s.points) |->
                        [cmd |-> "L",
                         at |-> <<XAxis_transform(xaxis, s.points[i][1]),
                                  YAxis_transform(yaxis, FMul(FDiv(s.points[i][2], max_intens), F(100)))>>]]
             path == SetAll(Node_new("path"),
                        << <<"fill", "none">>, <<"stroke", s.description.color>>,
                           <<"stroke-width", 5>>, <<"d", PathData_close(start \o lines)>> >>)
         IN  Node_add(Group_new, path)

(***************************************************************************)
(* Calls on one plot series: a series of any kind is built, then sliced    *)
(* and rendered in any order.                                              *)
(***************************************************************************)
\* the grid the points are taken from: two points share an x, two pairs a y
SeriesPoints == {<<F(1), F(2)>>, <<F(2), F(1)>>, <<F(2), F(2)>>, <<F(3), F(2)>>, <<F(4), F(1)>>}

PointLists == UNION {[1 .. n -> SeriesPoints] : n \in 0 .. MaxPoints}

\* the profile of the rendering example
ExampleProfile == << <<F(100), F(10)>>, <<F(101), F(50)>>, <<F(102), F(5)>> >>

\* the centroid peak of the end-to-end example
ExamplePeaks == << [mz |-> F(500), intensity |-> F(1000)] >>

AsPeaks(points) == [i \in 1 .. Len(points) |-> [mz |-> points[i][1], intensity |-> points[i][2]]]

IsSortedByMz(peaks) == \A i \in 1 .. Len(peaks) - 1 : FLe(peaks[i].mz, peaks[i + 1].mz)

\* the peaks of a centroid series are a peak set, in m/z order; those of a
\* deconvoluted series are in neutral mass order, which is any m/z order
InitialSeries ==
    {ContinuousSeries_new(ps, SeriesDescription_from("profile")) : ps \in PointLists \cup {ExampleProfile}}
    \cup {LineSeries_new(ps, SeriesDescription_from("line")) : ps \in PointLists}
    \cup {AnnotationSeries_new([i \in 1 .. Len(ps) |-> <<ps[i][1], ps[i][2], <<"b", IntToString(i)[1]>> >>],
                               SeriesDescription_from("annotation"), TextProps_default) : ps \in PointLists}
    \cup {TraceSeries_new([i \in 1 .. Len(ps) |-> <<F(500), ps[i][1], ps[i][2]>>],
                          SeriesDescription_from("feature")) : ps \in PointLists}
    \cup {ScatterSeries_new([i \in 1 .. Len(ps) |-> <<ps[i][1], ps[i][2], 3>>],
                            SeriesDescription_from("scatter")) : ps \in PointLists}
    \cup {CentroidSeries_new(AsPeaks(ps), SeriesDescription_from("centroid")) :
            ps \in {q \in PointLists : IsSortedByMz(AsPeaks(q))}}
    \cup {CentroidSeries_new(ExamplePeaks, SeriesDescription_from("centroid"))}
    \cup {DeconvolutedCentroidSeries_new(AsPeaks(ps), SeriesDescription_from("deconvoluted-centroid")) :
            ps \in PointLists}
    \cup {PrecursorSeries_new(F(mz), F(intensity), charge, SeriesDescription_from("precursor")) :
            mz \in {1, 2, 4}, intensity \in {1, 20000}, charge \in {None, Some(2)}}

\* the bounds of the slices: a window, two windows inside it, an inverted pair
SliceXBounds == {<<F(1), F(3)>>, <<F(2), F(3)>>, <<F(2), F(2)>>, <<F(3), F(1)>>}

SliceYBounds == {<<F(1), F(1)>>, <<F(2), F(0)>>}

\* the canvases of the tests: 600 x 200 over m/z 0..1000 and intensity
\* 10000..0, and 400 x 150 over m/z 0..1000 and intensity 100..0
Canvases ==
    {Canvas_update_scales(Canvas_new(600, 200), CoordinateRange_new(F(0), F(1000)), CoordinateRange_new(F(10000), F(0))),
     Canvas_update_scales(Canvas_new(400, 150), CoordinateRange_new(F(0), F(1000)), CoordinateRange_new(F(100), F(0)))}

DEFAULT_X_SCALE == 8500

DEFAULT_Y_SCALE == 4000

\* the axes of the first generation chart: the default m/z window 50..2000
\* widened by 5 %, and the intensity axis from a base peak of 100 down to 0
AxesV1 ==
    [xaxis |-> XAxis_new(CoordinateRange_new(FMul(F(50), Rat(19, 20)), FMul(F(2000), Rat(21, 20))),
                         "m/z", F(DEFAULT_X_SCALE)),
     yaxis |-> YAxis_new(CoordinateRange_new(F(100), F(0)), "Rel. Intensity", F(DEFAULT_Y_SCALE))]

Call(op, start, end, before, narrowed) ==
    [op |-> op, start |-> start, end |-> end, before |-> before, narrowed |-> narrowed]

InitSeries ==
    /\ LinearIdle
    /\ ColorIdle
    /\ AxisIdle
    /\ ChartIdle
    /\ CanvasIdle
    /\ series \in InitialSeries
    /\ last = Call("new", F(0), F(0), series, FALSE)
    /\ rendered = <<>>

SliceX ==
    /\ \E bounds \in SliceXBounds :
        /\ series' = PlotSeries_slice_x(series, bounds[1], bounds[2])
        /\ last' = Call("slice_x", bounds[1], bounds[2], series,
                        /\ last.op = "slice_x"
                        /\ FLe(last.start, bounds[1])
                        /\ FLe(bounds[1], bounds[2])
                        /\ FLe(bounds[2], last.end))
    /\ rendered' = <<>>
    /\ UNCHANGED offSeries

SliceY ==
    /\ \E bounds \in SliceYBounds :
        /\ series' = PlotSeries_slice_y(series, bounds[1], bounds[2])
        /\ last' = Call("slice_y", bounds[1], bounds[2], series, FALSE)
    /\ rendered' = <<>>
    /\ UNCHANGED offSeries

ToSvg ==
    /\ \E canvas \in Canvases :
        rendered' = <<[canvas |-> canvas, group |-> PlotSeries_to_svg(series, canvas)]>>
    /\ last' = Call("to_svg", F(0), F(0), series, FALSE)
    /\ UNCHANGED series
    /\ UNCHANGED offSeries

ToSvgV1 ==
    /\ series.kind = "Continuous"
    /\ rendered' = <<[canvas |-> AxesV1,
                      group |-> ContinuousSeries_to_svg_v1(series, AxesV1.xaxis, AxesV1.yaxis)]>>
    /\ last' = Call("to_svg_v1", F(0), F(0), series, FALSE)
    /\ UNCHANGED series
    /\ UNCHANGED offSeries

NextSeries ==
    \/ SliceX
    \/ SliceY
    \/ ToSvg
    \/ ToSvgV1

SpecSeries == InitSeries /\ [][NextSeries]_vars

(***************************************************************************)
(* Properties of the plot series (arithmetic of real numbers).             *)
(***************************************************************************)
PointListKinds == {"Continuous", "Line", "Annotation", "Trace", "Scatter", "Centroid", "DeconvolutedCentroid"}

HoldsPeaks(s) == s.kind \in {"Centroid", "DeconvolutedCentroid"}

\* the list of points of a point-list series, and the x of one of its items
Items(s) == IF HoldsPeaks(s) THEN s.peaks ELSE s.points

XOf(s, item) == IF HoldsPeaks(s) THEN item.mz ELSE item[1]

WithItems(s, items) == IF HoldsPeaks(s) THEN [s EXCEPT !.peaks = items] ELSE [s EXCEPT !.points = items]

\* C6: after slice_x(a, b) on a point-list series of any kind, the list is
\* the points of the list before the call with a <= x <= b, each kept once
\* and in the order they had, and nothing else of the series has changed.
SliceXKeepsClosedWindow ==
    (last.op = "slice_x" /\ series.kind \in PointListKinds) =>
        LET old == Items(last.before)
            new == Items(series)
            inside == {j \in 1 .. Len(old) :
                        /\ QLe(last.start, XOf(series, old[j]))
                        /\ QLe(XOf(series, old[j]), last.end)}
            rank(j) == Cardinality({k \in inside : k <= j})
        IN  /\ Len(new) = Cardinality(inside)
            /\ \A j \in inside : new[rank(j)] = old[j]
            /\ WithItems(series, old) = last.before

\* a slice kept a point on its upper bound and one on its lower bound, in
\* their order, and removed a point outside
SliceXOnBothBounds ==
    /\ last.op = "slice_x"
    /\ series.kind \in PointListKinds
    /\ Len(Items(last.before)) = 3
    /\ Len(Items(series)) = 2
    /\ XOf(series, Items(series)[1]) = last.end
    /\ XOf(series, Items(series)[2]) = last.start
    /\ last.start # last.end

\* C7: a slice_x(c, d) that directly follows a slice_x(a, b) with
\* a <= c <= d <= b leaves the series as slice_x(c, d) leaves the series the
\* first call was made on; for every kind, PrecursorSeries included.
NarrowingSliceIsSingleSlice ==
    [][(/\ last.op = "slice_x"
        /\ last'.op = "slice_x"
        /\ last' # last
        /\ QLe(last.start, last'.start)
        /\ QLe(last'.start, last'.end)
        /\ QLe(last'.end, last.end))
            => series' = PlotSeries_slice_x(last.before, last'.start, last'.end)]_vars

\* two slices in a row, the second strictly inside the first, and the second
\* removed a point the first had kept
NarrowedTwice ==
    /\ last.op = "slice_x"
    /\ last.narrowed
    /\ series.kind \in PointListKinds
    /\ Len(Items(series)) >= 1
    /\ Len(Items(series)) < Len(Items(last.before))

\* a to_svg of either generation has just returned the group of a
\* ContinuousSeries of at least one point
ContinuousRendered ==
    /\ last.op \in {"to_svg", "to_svg_v1"}
    /\ series.kind = "Continuous"
    /\ series.points # <<>>

\* the path data of the rendered group
RenderedPath == rendered[1].group.nodes[1].attrs["d"]

\* where the renderer of the call puts the data point <<x, y>>
Drawn(x, y) ==
    IF last.op = "to_svg_v1"
    THEN <<XAxis_transform(rendered[1].canvas.xaxis, x), YAxis_transform(rendered[1].canvas.yaxis, y)>>
    ELSE <<Scale_transform(rendered[1].canvas.x_axis.scale, x),
           Scale_transform(rendered[1].canvas.y_axis.scale, y)>>

SmallestX(points) ==
    CHOOSE x \in {points[i][1] : i \in DOMAIN points} : \A i \in DOMAIN points : QLe(x, points[i][1])

\* the path moves to `from`, draws a line to each of `points` in turn, and closes
IsClosedPathThrough(path, from, points) ==
    /\ Len(path) = Len(points) + 2
    /\ path[1] = [cmd |-> "M", at |-> from]
    /\ \A i \in 1 .. Len(points) :
            path[i + 1] = [cmd |-> "L", at |-> Drawn(points[i][1], points[i][2])]
    /\ path[Len(points) + 2].cmd = "z"

\* C9 as stated: the path of a ContinuousSeries of n >= 1 points starts on
\* the baseline under the smallest x, draws a line to each point in x-order,
\* and is closed.
PathVisitsPointsInXOrder ==
    ContinuousRendered =>
        \E f \in Permutations(1 .. Len(series.points)) :
            LET inXOrder == [i \in 1 .. Len(series.points) |-> series.points[f[i]]]
            IN  /\ \A i \in 1 .. Len(inXOrder) - 1 : QLe(inXOrder[i][1], inXOrder[i + 1][1])
                /\ IsClosedPathThrough(RenderedPath, Drawn(SmallestX(series.points), F(0)), inXOrder)

\* C9: the path of a ContinuousSeries of n >= 1 points starts on the
\* baseline (the image of y = 0) under the smallest x, draws one line to
\* each of the n points in the order of the list, which is x-order when the
\* list is in x-order, and is closed, which takes it back to its start on
\* the baseline.
PathVisitsPointsInListOrder ==
    ContinuousRendered =>
        IsClosedPathThrough(RenderedPath, Drawn(SmallestX(series.points), F(0)), series.points)

\* a series whose list is not in x-order has been rendered
UnorderedPointsRendered ==
    /\ ContinuousRendered
    /\ Len(series.points) = 3
    /\ ~QLe(series.points[1][1], series.points[2][1])
    /\ Len(RenderedPath) = 5

\* the three points a peak stands for
Triplet(peak) ==
    << <<QSub(peak.mz, Rat(1, 10000)), F(0)>>,
       <<peak.mz, peak.intensity>>,
       <<QAdd(peak.mz, Rat(1, 10000)), F(0)>> >>

\* C10: peaks_to_arrays turns n peaks into 3n points; the points 3k-2, 3k-1,
\* 3k are (mz - 0.0001, 0), (mz, intensity), (mz + 0.0001, 0) of the k-th
\* peak; the peak (500, 1000) gives (499.9999, 0), (500, 1000),
\* (500.0001, 0); and the group CentroidSeries.to_svg returns is the one
\* ContinuousSeries.to_svg returns for these points on the same canvas.
PeaksExpandToTriplets ==
    series.kind = "Centroid" =>
        LET n == Len(series.peaks)
            points == peaks_to_arrays(series.peaks)
        IN  /\ Len(points) = 3 * n
            /\ \A k \in 1 .. n : \A r \in 1 .. 3 :
                    points[3 * (k - 1) + r] = Triplet(series.peaks[k])[r]
            /\ series.peaks = ExamplePeaks =>
                    points = << <<<<4999999, 10000>>, <<0, 1>>>>,
                                <<<<500, 1>>, <<1000, 1>>>>,
                                <<<<5000001, 10000>>, <<0, 1>>>> >>
            /\ last.op = "to_svg" =>
                    /\ rendered[1].group =
                            ContinuousSeries_to_svg(
                                ContinuousSeries_new(
                                    [j \in 1 .. 3 * n |-> Triplet(series.peaks[(j + 2) \div 3])[((j - 1) % 3) + 1]],
                                    series.description),
                                rendered[1].canvas)
                    /\ Len(RenderedPath) = IF n = 0 THEN 1 ELSE 3 * n + 2

\* a centroid series of two peaks has been rendered: a path of 8 commands
TwoPeaksRendered ==
    /\ series.kind = "Centroid"
    /\ last.op = "to_svg"
    /\ Len(series.peaks) = 2
    /\ Len(RenderedPath) = 8

\* C11: slice_x(a, b) on a PrecursorSeries sets in_frame to (a <= mz <= b)
\* and changes nothing else of the series; to_svg returns a group without
\* children and without attributes when in_frame is false, and a group of
\* class "precursor" with two children, the label and then the dashed line,
\* when it is true.
PrecursorSliceSetsFlagOnly ==
    series.kind = "Precursor" =>
        /\ last.op = "slice_x" =>
                /\ series.in_frame = (QLe(last.start, series.mz) /\ QLe(series.mz, last.end))
                /\ [series EXCEPT !.in_frame = last.before.in_frame] = last.before
        /\ (last.op = "to_svg" /\ ~series.in_frame) =>
                /\ rendered[1].group.nodes = <<>>
                /\ DOMAIN rendered[1].group.attrs = {}
        /\ (last.op = "to_svg" /\ series.in_frame) =>
                LET group == rendered[1].group
                IN  /\ Len(group.nodes) = 2
                    /\ group.attrs["class"] = "precursor"
                    /\ Len(group.nodes[1].nodes) = 1
                    /\ group.nodes[1].nodes[1].nodes[1].tag = "text"
                    /\ group.nodes[2].nodes[1].tag = "polyline"
                    /\ Len(group.nodes[2].nodes[1].attrs["points"]) = 2
                    /\ group.nodes[2].attrs["stroke-dasharray"] = 4

\* a precursor that a slice put out of the frame has been rendered
HiddenPrecursorRendered ==
    /\ series.kind = "Precursor"
    /\ last.op = "to_svg"
    /\ ~series.in_frame
    /\ rendered[1].group.nodes = <<>>

(***************************************************************************)
(* The degenerate range.                                                   *)
(***************************************************************************)
\* C19: a transform through a CoordinateRange, or through a Scale over it,
\* with start = end does not hand back a NaN or an infinite coordinate (it
\* raises an error instead).
DegenerateTransformIsNoCoordinate ==
    (call \in {"transform", "Scale.transform"} /\ crange.start = crange.end) => IsFinite(res)

(***************************************************************************)
(* v2/chart_regions.rs: AxisProps, the drawing of one axis.                *)
(***************************************************************************)
DEFAULT_TICK_LABEL_SIZE == 10

DEFAULT_AXIS_LABEL_SIZE == 14

PathData_line_by(state, at) == Append(state, [cmd |-> "l", at |-> at])

AxisOrientation_is_horizontal(o) == o \in {"Top", "Bottom"}

translate_x(x) == <<"translate", x, F(0)>>

translate_y(y) == <<"translate", F(0), y>>

AxisProps_new(axis_orientation) ==
    [tick_format |-> Precision(2), tick_padding |-> F(3), tick_size_outer |-> F(6),
     tick_size_inner |-> F(6), axis_orientation |-> axis_orientation, tick_values |-> NoneOf(<<>>),
     label |-> NoneOf(""), id |-> NoneOf(""), tick_label_size |-> NoneOf(F(0)),
     axis_label_size |-> NoneOf(F(0))]

AxisProps_label(props, label) == [props EXCEPT !.label = Some(label)]

AxisProps_tick_format(props, style_) == [props EXCEPT !.tick_format = style_]

AxisProps_id(props, id) == [props EXCEPT !.id = Some(id)]

AxisProps_tick_spacing(props) ==
    FAdd(FAdd(props.tick_size_outer, FMax(props.tick_size_inner, F(0))), props.tick_padding)

\* the six values are always stepped from domain.start
AxisProps_tick_values_from_start(props, scale) ==
    IF props.tick_values.some THEN props.tick_values.v
    ELSE LET span == FSub(scale.domain.end, scale.domain.start)
             step == FDiv(span, F(5))
         IN  [k \in 1 .. 6 |-> FAdd(scale.domain.start, FMul(step, F(k - 1)))]

\* the values to_svg puts ticks at: tick_values, or else the closure's six
AxisProps_tick_values(props, scale) ==
    IF props.tick_values.some THEN props.tick_values.v
    ELSE IF FLe(scale.domain.start, scale.domain.end)
    THEN LET span == FSub(scale.domain.end, scale.domain.start)
             step == FDiv(span, F(5))
         IN  [k \in 1 .. 6 |-> FAdd(scale.domain.start, FMul(step, F(k - 1)))]
    ELSE LET span == FSub(scale.domain.start, scale.domain.end)
             step == FDiv(span, F(5))
         IN  [k \in 1 .. 6 |-> FAdd(scale.domain.end, FMul(step, F(k - 1)))]

\* the group of one tick drawn at range_v: the label and then the line
AxisProps_tick_at(props, o, range_v, spacing, text) ==
    Node_add(
        Node_add(
            SetAll(Group_new,
                << <<"class", "tick">>,
                   <<"transform", IF AxisOrientation_is_horizontal(o) THEN translate_x(range_v)
                                  ELSE translate_y(range_v)>> >>),
            SetAll(Node_set([tag |-> "text", attrs |-> <<>>, nodes |-> <<text>>], "fill", "black"),
                << <<IF AxisOrientation_is_horizontal(o) THEN "y" ELSE "x",
                     IF o \in {"Top", "Left"} THEN FNeg(spacing) ELSE spacing>>,
                   <<"dy", IF o = "Top" THEN "-0.32em" ELSE "0.32em">> >>)),
        SetAll(SetAll(Node_new("line"), << <<"stroke", "black">>, <<"stroke-width", Rat(3, 4)>> >>),
            CASE o = "Top" -> << <<"y2", FNeg(props.tick_size_inner)>> >>
              [] o = "Right" -> << <<"x2", props.tick_size_inner>> >>
              [] o = "Bottom" -> << <<"y2", props.tick_size_inner>> >>
              [] o = "Left" -> << <<"x2", FNeg(props.tick_size_inner)>> >>))

\* one tick: its group, at the scale's image of v and labelled with v
AxisProps_tick(props, scale, v) ==
    AxisProps_tick_at(props, props.axis_orientation, Scale_transform(scale, v),
        AxisProps_tick_spacing(props), AxisTickLabelStyle_format(props.tick_format, v, scale.domain))

RECURSIVE AddAll(_, _)
\* a fold of .add(child) calls
AddAll(node, children) ==
    IF children = <<>> THEN node ELSE AddAll(Node_add(node, Head(children)), Tail(children))

\* the container of the axis: no fill, the tick font size, the id as class,
\* and the text anchor of the orientation
AxisProps_container(props, o) ==
    Node_set(
        SetAll(SetAll(Group_new,
                   << <<"fill", "none">>,
                      <<"font-size", IF props.tick_label_size.some THEN props.tick_label_size.v
                                     ELSE F(DEFAULT_TICK_LABEL_SIZE)>> >>),
               IF props.id.some THEN << <<"class", props.id.v>> >> ELSE <<>>),
        "text-anchor",
        CASE o = "Right" -> "start"
          [] o \in {"Top", "Bottom"} -> "middle"
          [] o = "Left" -> "end")

\* the domain line, from one pixel before the range to one pixel after it
AxisProps_domain_path(o, range0, range1) ==
    SetAll(Node_new("path"),
        << <<"fill", "none">>, <<"stroke", "black">>, <<"stroke-width", Rat(3, 4)>>,
           <<"class", "domain">>,
           <<"d", IF AxisOrientation_is_horizontal(o)
                  THEN PathData_line_by(PathData_move_to(PathData_new, <<range0, F(0)>>), <<range1, F(0)>>)
                  ELSE PathData_line_by(PathData_move_to(PathData_new, <<F(0), range0>>), <<F(0), range1>>)>> >>)

\* one tick for each of the values, in their order
AxisProps_ticks(props, scale, values) ==
    [k \in 1 .. Len(values) |-> AxisProps_tick(props, scale, values[k])]

\* the label of the axis, in a group at the middle of the range
AxisProps_axis_label(props, o, spacing, midpoint) ==
    Node_add(
        Node_set(Group_new, "transform",
            IF AxisOrientation_is_horizontal(o) THEN translate_x(midpoint)
            ELSE translate_y(midpoint) \o <<"rotate(-90)">>),
        SetAll([tag |-> "text", attrs |-> <<>>, nodes |-> <<props.label.v>>],
            << <<"y", FMul(spacing, IF o = "Bottom" THEN Rat(5, 2) ELSE F(-4))>>,
               <<"fill", "black">>,
               <<"font-size", IF props.axis_label_size.some THEN props.axis_label_size.v
                              ELSE F(DEFAULT_AXIS_LABEL_SIZE)>>,
               <<"text-anchor", "middle">> >>))

\* a to_svg whose Right axis fails only when it has a label, like Top
AxisProps_to_svg_right_as_top(props, scale, canvas) ==
    IF props.label.some /\ props.axis_orientation \in {"Top", "Right"} THEN Panic
    ELSE AddAll(
            SetAll(
                AddAll(
                    Node_add(AxisProps_container(props, props.axis_orientation),
                        AxisProps_domain_path(props.axis_orientation,
                            FSub(CoordinateRange_min(scale.range), F(1)),
                            FAdd(CoordinateRange_max(scale.range), F(1)))),
                    AxisProps_ticks(props, scale, AxisProps_tick_values(props, scale))),
                IF props.axis_orientation = "Bottom"
                THEN << <<"transform", translate_y(F(canvas.height))>> >>
                ELSE <<>>),
            IF props.label.some
            THEN <<AxisProps_axis_label(props, props.axis_orientation, AxisProps_tick_spacing(props),
                       FDiv(FSub(CoordinateRange_max(scale.range), CoordinateRange_min(scale.range)), F(2)))>>
            ELSE <<>>)

\* Right reaches todo!(), and so does Top when there is a label
AxisProps_to_svg(props, scale, canvas) ==
    IF props.axis_orientation = "Right" THEN Panic
    ELSE IF props.label.some /\ props.axis_orientation = "Top" THEN Panic
    ELSE AddAll(
            SetAll(
                AddAll(
                    Node_add(AxisProps_container(props, props.axis_orientation),
                        AxisProps_domain_path(props.axis_orientation,
                            FSub(CoordinateRange_min(scale.range), F(1)),
                            FAdd(CoordinateRange_max(scale.range), F(1)))),
                    AxisProps_ticks(props, scale, AxisProps_tick_values(props, scale))),
                IF props.axis_orientation = "Bottom"
                THEN << <<"transform", translate_y(F(canvas.height))>> >>
                ELSE <<>>),
            IF props.label.some
            THEN <<AxisProps_axis_label(props, props.axis_orientation, AxisProps_tick_spacing(props),
                       FDiv(FSub(CoordinateRange_max(scale.range), CoordinateRange_min(scale.range)), F(2)))>>
            ELSE <<>>)

(***************************************************************************)
(* Rendering of one axis: an axis description, a scale and a canvas are    *)
(* drawn from small sets, and to_svg is applied to them.                   *)
(***************************************************************************)
AxisOrientations == {"Top", "Right", "Bottom", "Left"}

\* tick lists a caller hands to the axis: ascending, empty, descending
TickLists == {<<F(0), F(2), F(4)>>, <<>>, <<F(3), F(1)>>}

AxisDescriptions ==
    {[AxisProps_new(o) EXCEPT !.label = l, !.tick_values = t, !.tick_format = f, !.id = Some("x-axis")] :
        o \in AxisOrientations, l \in {NoneOf(""), Some("m/z")},
        t \in {NoneOf(<<>>)} \cup {Some(ticks) : ticks \in TickLists},
        f \in {Precision(2), Percentile(2)}}

InitAxis ==
    /\ numeric \in {"exact", "rounded"}
    /\ crange = "none"
    /\ value = "none"
    /\ pixels = "none"
    /\ style = "none"
    /\ call = "none"
    /\ res = "none"
    /\ ColorIdle
    /\ SeriesIdle
    /\ ChartIdle
    /\ CanvasIdle
    /\ \E props \in AxisDescriptions, a, b \in GridCoords :
          LET canvas == Canvas_new(600, 200)
              scale == IF AxisOrientation_is_horizontal(props.axis_orientation)
                       THEN canvas.x_axis.scale ELSE canvas.y_axis.scale
          IN  axisArgs = [props |-> props,
                          scale |-> [scale EXCEPT !.domain = CoordinateRange_new(a, b)],
                          canvas |-> canvas]
    /\ drawn = <<>>

RenderAxis ==
    /\ drawn = <<>>
    /\ drawn' = <<AxisProps_to_svg(axisArgs.props, axisArgs.scale, axisArgs.canvas)>>
    /\ UNCHANGED axisArgs
    /\ UNCHANGED offAxis

NextAxis == RenderAxis

SpecAxis == InitAxis /\ [][NextAxis]_vars

(***************************************************************************)
(* Properties of the axis ticks.                                           *)
(***************************************************************************)
\* the tick groups of a rendered axis, in document order
TickGroups(node) ==
    SelectSeq(node.nodes, LAMBDA n : n.tag = "g" /\ "class" \in DOMAIN n.attrs /\ n.attrs["class"] = "tick")

\* the six evenly spaced values from the lower to the upper bound of a domain
SixSteps(domain) ==
    LET lo == CoordinateRange_min(domain)
        hi == CoordinateRange_max(domain)
    IN  [k \in 1 .. 6 |-> FAdd(lo, FMul(F(k - 1), FDiv(FSub(hi, lo), F(5))))]

\* C18: an axis rendered without explicit tick values carries exactly six
\* ticks, at lo + i * (hi - lo) / 5 for i = 0 .. 5 with lo the smaller and hi
\* the larger bound of the domain, ascending also when the domain is
\* inverted; an axis given tick values carries exactly those, in their order.
\* Each tick sits at the scale's image of its value and is labelled with it.
TicksAreSixStepsOrSupplied ==
    (drawn # <<>> /\ drawn[1] # Panic) =>
        LET props == axisArgs.props
            scale == axisArgs.scale
            expected == IF props.tick_values.some THEN props.tick_values.v ELSE SixSteps(scale.domain)
            ticks == TickGroups(drawn[1])
            horizontal == AxisOrientation_is_horizontal(props.axis_orientation)
        IN  /\ Len(ticks) = Len(expected)
            /\ ~props.tick_values.some =>
                   /\ Len(ticks) = 6
                   /\ \A k \in 1 .. 5 : FLe(expected[k], expected[k + 1])
            /\ \A k \in 1 .. Len(ticks) :
                   /\ ticks[k].attrs["transform"] =
                          (IF horizontal THEN <<"translate", Scale_transform(scale, expected[k]), F(0)>>
                           ELSE <<"translate", F(0), Scale_transform(scale, expected[k])>>)
                   /\ ticks[k].nodes[1].tag = "text"
                   /\ ticks[k].nodes[1].nodes =
                          <<AxisTickLabelStyle_format(props.tick_format, expected[k], scale.domain)>>

InvertedAxisRendered ==
    /\ drawn # <<>>
    /\ drawn[1] # Panic
    /\ ~axisArgs.props.tick_values.some
    /\ FGt(axisArgs.scale.domain.start, axisArgs.scale.domain.end)
    /\ Len(TickGroups(drawn[1])) = 6

(***************************************************************************)
(* v2/chart.rs: SpectrumSVG and FeatureSVG.  A call returns Ok(chart), or  *)
(* Panicked(chart, message) with the chart as the panic left it.           *)
(***************************************************************************)
Ok(c) == [chart |-> c, status |-> "ok", message |-> ""]

Panicked(c, message) == [chart |-> c, status |-> "panic", message |-> message]

\* the message of Option::unwrap on None
UNWRAP_NONE == "called Option::unwrap() on a None value"

\* Option<CoordinateRange<T>>::None
NoRange == NoneOf(CoordinateRange_new(F(0), F(0)))

\* std::ops::Bound
Included(v) == [bound |-> "Included", v |-> v]

Excluded(v) == [bound |-> "Excluded", v |-> v]

Unbounded == [bound |-> "Unbounded", v |-> F(0)]

RECURSIVE Concat(_)
\* the text of a sequence of characters
Concat(chars) == IF chars = <<>> THEN "" ELSE Head(chars) \o Concat(Tail(chars))

\* usize::to_string
usize_to_string(n) == Concat(IntToString(n))

\* push_layer that puts the layer under the others
Canvas_push_layer_first(canvas, group) == [canvas EXCEPT !.groups = <<group>> \o canvas.groups]

Canvas_push_layer(canvas, group) == [canvas EXCEPT !.groups = Append(canvas.groups, group)]

\* the canvas group with its three children, unless an axis panicked
Canvas_compose(group, data, axes) ==
    IF axes.x = Panic \/ axes.y = Panic THEN Panic
    ELSE Node_add(Node_add(Node_add(group, data), axes.x), axes.y)

\* the data group first, then the X axis group, then the Y axis group
Canvas_to_svg(canvas, x_axis_props, y_axis_props) ==
    Canvas_compose(
        SetAll(Group_new,
            << <<"transform", <<"translate", FMul(AxisProps_tick_spacing(y_axis_props), F(6)),
                                FMul(AxisProps_tick_spacing(x_axis_props), F(4))>> >>,
               <<"class", "canvas">> >>),
        AddAll(Node_set(Group_new, "class", "data-canvas"), canvas.groups),
        [k \in {"x", "y"} |->
            AxisProps_to_svg(IF k = "x" THEN x_axis_props ELSE y_axis_props,
                             IF k = "x" THEN canvas.x_axis.scale ELSE canvas.y_axis.scale,
                             canvas)])

SpectrumSVG_default ==
    [kind |-> "SpectrumSVG",
     canvas |-> Canvas_new(1400, 600),
     colors |-> ColorCycle_default(DEFAULT_COLOR_CYCLE),
     xticks |-> AxisProps_id(AxisProps_label(AxisProps_new("Bottom"), "m/z"), "x-axis"),
     yticks |-> AxisProps_id(AxisProps_tick_format(AxisProps_label(AxisProps_new("Left"), "Intensity"),
                                                   Percentile(2)), "y-axis"),
     x_range |-> NoRange, y_range |-> NoRange, finished |-> FALSE,
     series |-> <<>>, custom_css |-> NoneOf("")]

SpectrumSVG_new(canvas) == [SpectrumSVG_default EXCEPT !.canvas = canvas]

SpectrumSVG_with_size(width, height) == SpectrumSVG_new(Canvas_new(width, height))

FeatureSVG_default ==
    [kind |-> "FeatureSVG",
     canvas |-> Canvas_new(1400, 600),
     colors |-> ColorCycle_default(DEFAULT_COLOR_CYCLE),
     xticks |-> AxisProps_id(AxisProps_label(AxisProps_new("Bottom"), "Time"), "x-axis"),
     yticks |-> AxisProps_id(AxisProps_tick_format(AxisProps_label(AxisProps_new("Left"), "Intensity"),
                                                   SciNot(2)), "y-axis"),
     x_range |-> NoRange, y_range |-> NoRange, finished |-> FALSE,
     series |-> <<>>, custom_css |-> NoneOf("")]

FeatureSVG_new(canvas) == [FeatureSVG_default EXCEPT !.canvas = canvas]

FeatureSVG_with_size(width, height) == FeatureSVG_new(Canvas_new(width, height))

SVG_add_raw(c, group) == Ok([c EXCEPT !.canvas = Canvas_push_layer(c.canvas, group)])

RECURSIVE FoldWindows(_, _)
\* the fold over scan_windows from (inf, -inf)
FoldWindows(windows, acc) ==
    IF windows = <<>> THEN acc
    ELSE FoldWindows(Tail(windows),
                     <<FMin(Head(windows).lower_bound, acc[1]), FMax(Head(windows).upper_bound, acc[2])>>)

\* scan bounds that are those of the first window alone
ScanBounds_first_window(spectrum) ==
    IF spectrum.first_scan.some
    THEN FoldWindows(IF spectrum.first_scan.v = <<>> THEN <<>> ELSE <<Head(spectrum.first_scan.v)>>,
                     <<PosInf, NegInf>>)
    ELSE <<F(50), F(2000)>>

\* (min_mz, max_mz) of the first scan, or (50, 2000) without a scan
ScanBounds(spectrum) ==
    IF spectrum.first_scan.some THEN FoldWindows(spectrum.first_scan.v, <<PosInf, NegInf>>)
    ELSE <<F(50), F(2000)>>

\* an axes_from that takes the new bounds and forgets the old
SVG_axes_replace(c, max_int, lo, hi) ==
    LET y == Some(CoordinateRange_new(max_int, F(0)))
        x == IF ~c.x_range.some
             THEN Some(CoordinateRange_new(FMul(lo, Rat(95, 100)), FMul(hi, Rat(105, 100))))
             ELSE Some(CoordinateRange_new(lo, hi))
    IN  Ok([c EXCEPT !.y_range = y, !.x_range = x,
                     !.canvas = Canvas_update_scales(c.canvas, x.v, y.v)])

\* the part of axes_from the two charts share: y from max_int, x from (lo, hi)
SVG_axes_widen(c, max_int, lo, hi) ==
    LET y == IF ~c.y_range.some THEN Some(CoordinateRange_new(max_int, F(0)))
             ELSE Some([c.y_range.v EXCEPT !.start = FMax(c.y_range.v.start, max_int)])
        x == IF ~c.x_range.some
             THEN Some(CoordinateRange_new(FMul(lo, Rat(95, 100)), FMul(hi, Rat(105, 100))))
             ELSE Some([c.x_range.v EXCEPT !.start = FMin(c.x_range.v.start, lo),
                                         !.end = FMax(c.x_range.v.end, hi)])
    IN  Ok([c EXCEPT !.y_range = y, !.x_range = x,
                     !.canvas = Canvas_update_scales(c.canvas, x.v, y.v)])

SpectrumSVG_axes_from(c, spectrum) ==
    LET max_int == spectrum.base_peak_intensity
        bounds == ScanBounds(spectrum)
    IN  SVG_axes_widen(c, max_int, bounds[1], bounds[2])

RECURSIVE MaxByTotalCmp(_)
\* Iterator::max_by(total_cmp) over the intensities of a feature with a point
MaxByTotalCmp(zs) ==
    IF Len(zs) = 1 THEN Head(zs) ELSE FMax(Head(zs), MaxByTotalCmp(Tail(zs)))

FeatureSVG_axes_from(c, feature) ==
    IF feature = <<>> THEN Panicked(c, UNWRAP_NONE)
    ELSE LET max_int == MaxByTotalCmp([k \in 1 .. Len(feature) |-> feature[k][3]])
             start_time == feature[1][2]
             end_time == feature[Len(feature)][2]
         IN  SVG_axes_widen(c, max_int, start_time, end_time)

\* an xlim that sets the range and leaves the scales of the canvas alone
SVG_xlim_range_only(c, xlim) ==
    IF ~c.x_range.some THEN Panicked(c, UNWRAP_NONE)
    ELSE LET a == IF xlim.start.bound = "Unbounded" THEN c.x_range.v.start ELSE xlim.start.v
             b == IF xlim.end.bound = "Unbounded" THEN c.x_range.v.end ELSE xlim.end.v
             c1 == [c EXCEPT !.x_range = Some(CoordinateRange_new(a, b))]
         IN  IF ~c.y_range.some THEN Panicked(c1, UNWRAP_NONE)
             ELSE Ok(c1)

SVG_xlim(c, xlim) ==
    IF ~c.x_range.some THEN Panicked(c, UNWRAP_NONE)
    ELSE LET a == IF xlim.start.bound = "Unbounded" THEN c.x_range.v.start ELSE xlim.start.v
             b == IF xlim.end.bound = "Unbounded" THEN c.x_range.v.end ELSE xlim.end.v
             c1 == [c EXCEPT !.x_range = Some(CoordinateRange_new(a, b))]
         IN  IF ~c.y_range.some THEN Panicked(c1, UNWRAP_NONE)
             ELSE Ok([c1 EXCEPT !.canvas = Canvas_update_scales(c.canvas, c1.x_range.v, c.y_range.v)])

\* the chart with the description registered, and the tag of the description
SVG_add_series_description(c, descr) ==
    LET tag == SeriesDescription_series_type(descr)
        bucket == Append(IF tag \in DOMAIN c.series THEN c.series[tag] ELSE <<>>, descr)
    IN  [chart |-> [c EXCEPT !.series = (tag :> bucket) @@ c.series],
         tag |-> usize_to_string(Len(bucket))]

PlotSeries_set_tag(s, tag) == [s EXCEPT !.description.tag = tag]

\* a draw_series that restricts the series to the y range as well
SVG_draw_series_slicing_y(c, series_) ==
    IF ~c.x_range.some \/ ~c.y_range.some THEN Panicked(c, UNWRAP_NONE)
    ELSE Ok([c EXCEPT !.canvas = Canvas_push_layer(c.canvas,
                PlotSeries_to_svg(
                    PlotSeries_slice_y(
                        PlotSeries_slice_x(series_, c.x_range.v.start, c.x_range.v.end),
                        CoordinateRange_min(c.y_range.v), CoordinateRange_max(c.y_range.v)),
                    c.canvas))])

SVG_draw_series(c, series_) ==
    IF ~c.x_range.some THEN Panicked(c, UNWRAP_NONE)
    ELSE Ok([c EXCEPT !.canvas = Canvas_push_layer(c.canvas,
                PlotSeries_to_svg(PlotSeries_slice_x(series_, c.x_range.v.start, c.x_range.v.end),
                                  c.canvas))])

SVG_add_series(c, series_) ==
    LET registered == SVG_add_series_description(c, series_.description)
    IN  SVG_draw_series(registered.chart, PlotSeries_set_tag(series_, registered.tag))

\* the chart after colors.next(), and the colour it returned
SVG_next_color(c) ==
    LET n == ColorCycle_next(c.colors)
    IN  [chart |-> [c EXCEPT !.colors = n.cycle], item |-> n.item]

ContinuousSeries_from_iterators(points, description) == ContinuousSeries_new(points, description)

CentroidSeries_from_iterator(peaks, description) ==
    CentroidSeries_new(MZPeakSetType_from_iter(peaks), description)

DeconvolutedCentroidSeries_from_iterator(peaks, description) ==
    DeconvolutedCentroidSeries_new(MassPeakSetType_from_iter(peaks), description)

PrecursorSeries_from_precursor(precursor) ==
    PrecursorSeries_new(precursor.mz, precursor.intensity, precursor.charge,
                        SeriesDescription_from("precursor"))

\* AsSeries::as_series of the arrays of a spectrum, a peak set or a precursor
as_series(t) ==
    CASE t.type = "BinaryArrayMap" ->
            ContinuousSeries_from_iterators(t.v, SeriesDescription_from("profile"))
      [] t.type = "PeakSet" ->
            CentroidSeries_from_iterator(t.v, SeriesDescription_from("centroid"))
      [] t.type = "DeconvolutedPeakSet" ->
            DeconvolutedCentroidSeries_from_iterator(t.v, SeriesDescription_from("deconvoluted-centroid"))
      [] t.type = "Precursor" -> PrecursorSeries_from_precursor(t.v)

SpectrumSVG_draw_profile(c, arrays) ==
    LET n == SVG_next_color(c)
    IN  IF ~n.item.some THEN Panicked(n.chart, UNWRAP_NONE)
        ELSE IF ~c.x_range.some THEN Panicked(n.chart, UNWRAP_NONE)
        ELSE Ok([n.chart EXCEPT !.canvas = Canvas_push_layer(c.canvas,
                    ContinuousSeries_to_svg(
                        ContinuousSeries_slice_x(
                            ContinuousSeries_from_iterators(arrays,
                                [SeriesDescription_from("profile") EXCEPT !.color = n.item.v]),
                            c.x_range.v.start, c.x_range.v.end),
                        c.canvas))])

SpectrumSVG_draw_centroids(c, peaks) ==
    LET made == CentroidSeries_from_iterator(peaks, SeriesDescription_from("centroid"))
        n == SVG_next_color(c)
    IN  IF ~n.item.some THEN Panicked(n.chart, UNWRAP_NONE)
        ELSE SVG_add_series(n.chart, [made EXCEPT !.description.color = n.item.v])

SpectrumSVG_draw_deconvoluted_centroids(c, peaks) ==
    LET made == DeconvolutedCentroidSeries_from_iterator(peaks,
                    SeriesDescription_from("deconvoluted-centroid"))
        n == SVG_next_color(c)
    IN  IF ~n.item.some THEN Panicked(n.chart, UNWRAP_NONE)
        ELSE SVG_add_series(n.chart, [made EXCEPT !.description.color = n.item.v])

SVG_add_as_series(c, t) ==
    LET made == as_series(t)
        n == SVG_next_color(c)
    IN  IF ~n.item.some THEN Panicked(n.chart, UNWRAP_NONE)
        ELSE SVG_add_series(n.chart, [made EXCEPT !.description.color = n.item.v])

RECURSIVE SVG_add_each_as_series(_, _)
\* add_as_series of each of the sources in turn, from the result r of the call
\* before; nothing runs after a panic
SVG_add_each_as_series(r, sources) ==
    IF r.status # "ok" \/ sources = <<>> THEN r
    ELSE SVG_add_each_as_series(SVG_add_as_series(r.chart, Head(sources)), Tail(sources))

\* what draw_spectrum draws of a spectrum, in order: the arrays of a profile,
\* the peaks, the deconvoluted peaks, and a precursor of positive intensity.
\* draw_centroids and draw_deconvoluted_centroids are add_as_series of the peak
\* set: the same series, the next colour, add_series.
SpectrumSVG_draw_spectrum_sources(spectrum) ==
    (IF spectrum.signal_continuity = "Profile"
     THEN <<[type |-> "BinaryArrayMap", v |-> spectrum.arrays]>> ELSE <<>>)
    \o (IF spectrum.peaks.some THEN <<[type |-> "PeakSet", v |-> spectrum.peaks.v]>> ELSE <<>>)
    \o (IF spectrum.deconvoluted_peaks.some
        THEN <<[type |-> "DeconvolutedPeakSet", v |-> spectrum.deconvoluted_peaks.v]>> ELSE <<>>)
    \o (IF spectrum.precursor.some /\ FGt(spectrum.precursor.v.intensity, F(0))
        THEN <<[type |-> "Precursor", v |-> spectrum.precursor.v]>> ELSE <<>>)

\* a draw_spectrum that takes the axes from every spectrum it draws
SpectrumSVG_draw_spectrum_widening(c, spectrum) ==
    SVG_add_each_as_series(SpectrumSVG_axes_from(c, spectrum),
                           SpectrumSVG_draw_spectrum_sources(spectrum))

\* axes_from if there is no x range yet, then each drawing step in turn
SpectrumSVG_draw_spectrum(c, spectrum) ==
    SVG_add_each_as_series(IF ~c.x_range.some THEN SpectrumSVG_axes_from(c, spectrum) ELSE Ok(c),
                           SpectrumSVG_draw_spectrum_sources(spectrum))

\* a finish that flips the flag
SVG_finish_toggle(c) == Ok([c EXCEPT !.finished = ~c.finished])

SVG_finish(c) == IF c.finished THEN Ok(c) ELSE Ok([c EXCEPT !.finished = TRUE])

Document_new == Node_new("svg")

\* the document with the canvas group, unless rendering it panicked
Document_add(document_, g) == IF g = Panic THEN Panic ELSE Node_add(document_, g)

SVG_make_document(c) ==
    LET d0 == IF c.custom_css.some
              THEN Node_add(Document_new, [tag |-> "style", attrs |-> <<>>, nodes |-> <<c.custom_css.v>>])
              ELSE Document_new
    IN  Document_add(d0, Canvas_to_svg(c.canvas, c.xticks, c.yticks))

(***************************************************************************)
(* axes.rs, series.rs and chart.rs: the first generation chart, which      *)
(* keeps its two axes, its layers and its document itself.                 *)
(***************************************************************************)
DEFAULT_FONT_FAMILY == "Times New Roman"

AxisLabelOptions(tick_count, tick_font_size, label_font_size, tick_style) ==
    [tick_count |-> tick_count, tick_font_size |-> tick_font_size,
     label_font_size |-> label_font_size, tick_style |-> tick_style]

\* start + i * steps for i below tick_count, then end
Axis_tick_positions(axis, ticks) ==
    LET steps == FDiv(CoordinateRange_size(axis.coordinates), F(ticks.tick_count))
    IN  [k \in 1 .. ticks.tick_count + 1 |->
            IF k <= ticks.tick_count THEN FAdd(axis.coordinates.start, FMul(F(k - 1), steps))
            ELSE axis.coordinates.end]

\* the pixels to_svg computes before it builds the nodes: the line of the axis,
\* the end of a tick, the place of the label, and the image of each position
YAxis_pixels(axis, xaxis, tick_positions) ==
    [xcoord |-> XAxis_transform(xaxis, xaxis.coordinates.start),
     axis_label_coord |-> XAxis_transform(xaxis,
        FSub(xaxis.coordinates.start, FMul(CoordinateRange_size(xaxis.coordinates), Rat(4, 100)))),
     tick_length |-> XAxis_transform(xaxis,
        FSub(xaxis.coordinates.start, FMul(CoordinateRange_size(xaxis.coordinates), Rat(5, 1000)))),
     start |-> YAxis_transform(axis, axis.coordinates.start),
     end |-> YAxis_transform(axis, axis.coordinates.end),
     middle |-> YAxis_transform(axis, FAdd(FDiv(CoordinateRange_size(axis.coordinates), F(2)),
                                           CoordinateRange_max(axis.coordinates))),
     at |-> [k \in 1 .. Len(tick_positions) |-> YAxis_transform(axis, tick_positions[k])]]

RECURSIVE YAxis_fold(_, _, _)
\* the fold over the tick positions: out to the end of the tick and back
YAxis_fold(state, px, k) ==
    IF k > Len(px.at) THEN state
    ELSE YAxis_fold(PathData_line_to(PathData_line_to(PathData_line_to(state,
                        <<px.xcoord, px.at[k]>>), <<px.tick_length, px.at[k]>>), <<px.xcoord, px.at[k]>>),
                    px, k + 1)

\* the path and the axis label, then one text per tick position
YAxis_group(axis, ticks, tick_positions, px) ==
    AddAll(
        Node_set(
            Node_add(
                Node_add(Group_new,
                    SetAll(Node_new("path"),
                        << <<"fill", "none">>, <<"stroke", "black">>, <<"stroke-width", Rat(5, 2)>>,
                           <<"d", PathData_close(PathData_line_to(
                                    YAxis_fold(PathData_move_to(PathData_new, <<px.xcoord, px.start>>), px, 1),
                                    <<px.xcoord, px.end>>))>> >>)),
                SetAll([tag |-> "text", attrs |-> <<>>, nodes |-> <<axis.label>>],
                    << <<"x", F(0)>>, <<"y", F(0)>>,
                       <<"transform", <<"translate", px.axis_label_coord, px.middle, "rotate(-90)">> >>,
                       <<"font-size", ticks.label_font_size>>, <<"text-anchor", "middle">>,
                       <<"dominant-baseline", "hanging">>, <<"font-family", DEFAULT_FONT_FAMILY>> >>)),
            "class", "y-axis"),
        [k \in 1 .. Len(tick_positions) |->
            SetAll([tag |-> "text", attrs |-> <<>>,
                    nodes |-> <<AxisTickLabelStyle_format(ticks.tick_style, tick_positions[k], axis.coordinates)>>],
                   << <<"x", px.tick_length>>, <<"y", px.at[k]>>, <<"font-size", ticks.tick_font_size>>,
                      <<"text-anchor", "end">>, <<"dominant-baseline", "middle">>,
                      <<"font-family", DEFAULT_FONT_FAMILY>> >>)])

\* the tick positions, their pixels, then the nodes
YAxis_render(axis, ticks, xaxis, tick_positions) ==
    YAxis_group(axis, ticks, tick_positions, YAxis_pixels(axis, xaxis, tick_positions))

YAxis_to_svg(axis, ticks, xaxis) ==
    YAxis_render(axis, ticks, xaxis, Axis_tick_positions(axis, ticks))

XAxis_pixels(axis, yaxis, tick_positions) ==
    [ycoord |-> YAxis_transform(yaxis, Rat(-1, 10)),
     tick_length |-> YAxis_transform(yaxis,
        FSub(F(1), FMul(CoordinateRange_max(yaxis.coordinates), Rat(1, 100)))),
     axis_label_coord |-> YAxis_transform(yaxis,
        FSub(F(1), FMul(CoordinateRange_max(yaxis.coordinates), Rat(3, 100)))),
     start |-> XAxis_transform(axis, axis.coordinates.start),
     end |-> XAxis_transform(axis, axis.coordinates.end),
     middle |-> XAxis_transform(axis, FAdd(FDiv(CoordinateRange_size(axis.coordinates), F(2)),
                                           axis.coordinates.start)),
     at |-> [k \in 1 .. Len(tick_positions) |-> XAxis_transform(axis, tick_positions[k])]]

RECURSIVE XAxis_fold(_, _, _)
\* the fold over the tick positions: down to the end of the tick and back
XAxis_fold(state, px, k) ==
    IF k > Len(px.at) THEN state
    ELSE XAxis_fold(PathData_line_to(PathData_line_to(PathData_line_to(state,
                        <<px.at[k], px.ycoord>>), <<px.at[k], px.tick_length>>), <<px.at[k], px.ycoord>>),
                    px, k + 1)

XAxis_group(axis, ticks, tick_positions, px) ==
    AddAll(
        Node_set(
            Node_add(
                Node_add(Group_new,
                    SetAll(Node_new("path"),
                        << <<"fill", "none">>, <<"stroke", "black">>, <<"stroke-width", Rat(5, 2)>>,
                           <<"d", PathData_close(PathData_line_to(
                                    XAxis_fold(PathData_move_to(PathData_new, <<px.start, px.ycoord>>), px, 1),
                                    <<px.end, px.ycoord>>))>> >>)),
                SetAll([tag |-> "text", attrs |-> <<>>, nodes |-> <<axis.label>>],
                    << <<"x", px.middle>>, <<"y", px.axis_label_coord>>,
                       <<"font-size", ticks.label_font_size>>, <<"text-anchor", "middle">>,
                       <<"dominant-baseline", "hanging">>, <<"font-family", DEFAULT_FONT_FAMILY>> >>)),
            "class", "x-axis"),
        [k \in 1 .. Len(tick_positions) |->
            SetAll([tag |-> "text", attrs |-> <<>>,
                    nodes |-> <<AxisTickLabelStyle_format(ticks.tick_style, tick_positions[k], axis.coordinates)>>],
                   << <<"x", px.at[k]>>, <<"y", px.tick_length>>, <<"font-size", ticks.tick_font_size>>,
                      <<"text-anchor", "middle">>, <<"dominant-baseline", "hanging">>,
                      <<"font-family", DEFAULT_FONT_FAMILY>> >>)])

XAxis_render(axis, ticks, yaxis, tick_positions) ==
    XAxis_group(axis, ticks, tick_positions, XAxis_pixels(axis, yaxis, tick_positions))

XAxis_to_svg(axis, ticks, yaxis) ==
    XAxis_render(axis, ticks, yaxis, Axis_tick_positions(axis, ticks))

\* PlotSeries::to_svg of series.rs
\* a series of peaks is rendered as the continuous series of its arrays
PlotSeries_to_svg_v1(s, xaxis, yaxis) ==
    ContinuousSeries_to_svg_v1(
        CASE s.kind = "Continuous" -> s
          [] s.kind = "Centroid" -> ContinuousSeries_new(peaks_to_arrays(s.peaks), s.description)
          [] s.kind = "DeconvolutedCentroid" ->
                ContinuousSeries_new(peaks_to_arrays(SortByMz(s.peaks)), s.description),
        xaxis, yaxis)

NoAxis == NoneOf(XAxis_new(CoordinateRange_new(F(0), F(0)), "", F(0)))

SpectrumSVG_v1_default ==
    [kind |-> "SpectrumSVG_v1",
     document |-> Document_new,
     intensity_scale |-> F(DEFAULT_Y_SCALE),
     mz_scale |-> F(DEFAULT_X_SCALE),
     colors |-> ColorCycle_default(DEFAULT_COLOR_CYCLE_v1),
     xticks |-> AxisLabelOptions(7, F(80), F(120), Precision(2)),
     yticks |-> AxisLabelOptions(5, F(80), F(120), Percentile(1)),
     xaxis |-> NoAxis, yaxis |-> NoAxis, finished |-> FALSE, groups |-> <<>>]

SpectrumSVG_v1_axes_from(c, spectrum) ==
    LET y == IF ~c.yaxis.some
             THEN Some(YAxis_new(CoordinateRange_new(spectrum.base_peak_intensity, F(0)),
                                 "Rel. Intensity", c.intensity_scale))
             ELSE c.yaxis
        bounds == ScanBounds(spectrum)
        x == IF ~c.xaxis.some
             THEN Some(XAxis_new(CoordinateRange_new(FMul(bounds[1], Rat(95, 100)),
                                                     FMul(bounds[2], Rat(105, 100))),
                                 "m/z", c.mz_scale))
             ELSE c.xaxis
    IN  Ok([c EXCEPT !.yaxis = y, !.xaxis = x])

SpectrumSVG_v1_xlim(c, xlim) ==
    IF ~c.xaxis.some THEN Panicked(c, UNWRAP_NONE)
    ELSE LET a == IF xlim.start.bound = "Unbounded" THEN c.xaxis.v.coordinates.start ELSE xlim.start.v
             b == IF xlim.end.bound = "Unbounded" THEN c.xaxis.v.coordinates.end ELSE xlim.end.v
         IN  Ok([c EXCEPT !.xaxis.v.coordinates = CoordinateRange_new(a, b)])

\* the group is pushed, unless to_svg panicked
SpectrumSVG_v1_push(c, sgroup) ==
    IF sgroup = Panic THEN Panicked(c, UNWRAP_NONE)
    ELSE Ok([c EXCEPT !.groups = Append(c.groups, sgroup)])

SpectrumSVG_v1_draw_series(c, series_) ==
    IF ~c.xaxis.some \/ ~c.yaxis.some THEN Panicked(c, UNWRAP_NONE)
    ELSE SpectrumSVG_v1_push(c,
            PlotSeries_to_svg_v1(
                PlotSeries_slice_x(series_, c.xaxis.v.coordinates.start, c.xaxis.v.coordinates.end),
                c.xaxis.v, c.yaxis.v))

\* draw_profile, draw_centroids, draw_deconvoluted_centroids: the series is
\* made with the next colour, then sliced, rendered and pushed
SpectrumSVG_v1_draw(c, made) ==
    LET n == SVG_next_color(c)
    IN  IF ~n.item.some THEN Panicked(n.chart, UNWRAP_NONE)
        ELSE SpectrumSVG_v1_draw_series(n.chart, [made EXCEPT !.description.color = n.item.v])

SpectrumSVG_v1_draw_profile(c, arrays) ==
    SpectrumSVG_v1_draw(c, ContinuousSeries_from_iterators(arrays, SeriesDescription_from("Profile")))

SpectrumSVG_v1_draw_centroids(c, peaks) ==
    SpectrumSVG_v1_draw(c, CentroidSeries_from_iterator(peaks, SeriesDescription_from("Centroid")))

SpectrumSVG_v1_draw_deconvoluted_centroids(c, peaks) ==
    SpectrumSVG_v1_draw(c, DeconvolutedCentroidSeries_from_iterator(peaks, SeriesDescription_from("Deconvolved")))

RECURSIVE SpectrumSVG_v1_draw_each(_, _)
\* draw of each of the series in turn, from the result r of the call before;
\* nothing runs after a panic
SpectrumSVG_v1_draw_each(r, made) ==
    IF r.status # "ok" \/ made = <<>> THEN r
    ELSE SpectrumSVG_v1_draw_each(SpectrumSVG_v1_draw(r.chart, Head(made)), Tail(made))

\* the series draw_profile, draw_centroids and draw_deconvoluted_centroids make
\* for draw_spectrum, in order
SpectrumSVG_v1_draw_spectrum_series(spectrum) ==
    (IF spectrum.signal_continuity = "Profile"
     THEN <<ContinuousSeries_from_iterators(spectrum.arrays, SeriesDescription_from("Profile"))>>
     ELSE <<>>)
    \o (IF spectrum.peaks.some
        THEN <<CentroidSeries_from_iterator(spectrum.peaks.v, SeriesDescription_from("Centroid"))>>
        ELSE <<>>)
    \o (IF spectrum.deconvoluted_peaks.some
        THEN <<DeconvolutedCentroidSeries_from_iterator(spectrum.deconvoluted_peaks.v,
                                                       SeriesDescription_from("Deconvolved"))>>
        ELSE <<>>)

SpectrumSVG_v1_draw_spectrum(c, spectrum) ==
    SpectrumSVG_v1_draw_each(SpectrumSVG_v1_axes_from(c, spectrum),
                             SpectrumSVG_v1_draw_spectrum_series(spectrum))

SpectrumSVG_v1_finish(c) ==
    IF c.finished THEN Ok(c)
    ELSE LET container == Node_set(Group_new, "transform",
                             <<"scale(0.9,0.9)translate", FMul(c.mz_scale, Rat(1, 10)),
                               FMul(c.intensity_scale, Rat(5, 100))>>)
             inner_container == AddAll(Node_set(Group_new, "class", "canvas"), c.groups)
         IN  IF ~c.xaxis.some \/ ~c.yaxis.some
             THEN Panicked([c EXCEPT !.finished = TRUE, !.groups = <<>>], UNWRAP_NONE)
             ELSE Ok([c EXCEPT !.finished = TRUE, !.groups = <<>>,
                        !.document =
                            SetAll(Node_add(c.document,
                                       Node_add(Node_add(Node_add(container, inner_container),
                                                         XAxis_to_svg(c.xaxis.v, c.xticks, c.yaxis.v)),
                                                YAxis_to_svg(c.yaxis.v, c.yticks, c.xaxis.v))),
                                   << <<"viewBox", <<F(0), F(0), FMul(c.mz_scale, Rat(108, 100)),
                                                     FMul(c.intensity_scale, Rat(104, 100))>> >>,
                                      <<"preserveAspectRatio", "xMidYMid meet">> >>)])

(***************************************************************************)
(* Calls on one chart: a chart of either generation is constructed, then   *)
(* up to MaxCalls of its methods are called on it, in any order and with   *)
(* the data of a few spectra and features.  A panic ends the behaviour.    *)
(***************************************************************************)
NoPeaks == NoneOf(<<>>)

NoPrecursor == NoneOf([mz |-> F(0), intensity |-> F(0), charge |-> None])

Peak(mz, intensity) == [mz |-> F(mz), intensity |-> F(intensity)]

Window(lower_bound, upper_bound) == [lower_bound |-> F(lower_bound), upper_bound |-> F(upper_bound)]

\* what a chart reads of a spectrum
Spectrum(base_peak_intensity, first_scan, signal_continuity, arrays, peaks, deconvoluted_peaks, precursor) ==
    [base_peak_intensity |-> F(base_peak_intensity), first_scan |-> first_scan,
     signal_continuity |-> signal_continuity, arrays |-> arrays, peaks |-> peaks,
     deconvoluted_peaks |-> deconvoluted_peaks, precursor |-> precursor]

\* centroids without a scan
CentroidSpectrum ==
    Spectrum(100, NoneOf(<<>>), "Centroid", <<>>, Some(<<Peak(500, 100), Peak(700, 40)>>), NoPeaks, NoPrecursor)

\* a profile in one scan window, with a precursor in the window
ProfileSpectrum ==
    Spectrum(50, Some(<<Window(100, 1000)>>), "Profile", ExampleProfile, NoPeaks, NoPeaks,
             Some([mz |-> F(500), intensity |-> F(10), charge |-> Some(2)]))

\* two scan windows, deconvoluted peaks out of m/z order, a precursor outside the windows
WideSpectrum ==
    Spectrum(250, Some(<<Window(200, 800), Window(40, 2400)>>), "Centroid", <<>>,
             Some(<<Peak(300, 250)>>), Some(<<Peak(900, 10), Peak(250, 20)>>),
             Some([mz |-> F(3000), intensity |-> F(5), charge |-> None]))

\* a scan without a window
WindowlessSpectrum ==
    Spectrum(10, Some(<<>>), "Centroid", <<>>, NoPeaks, NoPeaks, NoPrecursor)

Spectra == {CentroidSpectrum, ProfileSpectrum, WideSpectrum, WindowlessSpectrum}

\* features as lists of (m/z, time, intensity), in time order; the last has no point
Features ==
    {<< <<F(500), F(1), F(5)>>, <<F(500), F(2), F(9)>>, <<F(500), F(3), F(4)>> >>,
     << <<F(500), F(10), F(3)>>, <<F(500), F(20), F(7)>> >>,
     <<>>}

XLimits ==
    {[start |-> Included(F(200)), end |-> Excluded(F(800))],
     [start |-> Unbounded, end |-> Included(F(500))]}

\* series a caller builds: an overlay line, a profile under the label of the
\* centroids, and a threshold line above every base peak that ends beyond
\* the scan window of the profile
CallerSeries ==
    {LineSeries_new(<< <<F(150), F(10)>>, <<F(900), F(20)>> >>, SeriesDescription_from("line")),
     ContinuousSeries_new(ExampleProfile, SeriesDescription_new("centroid", "crimson")),
     LineSeries_new(<< <<F(200), F(300)>>, <<F(2200), F(300)>> >>, SeriesDescription_from("threshold"))}

CallerSeriesV1 ==
    {ContinuousSeries_new(ExampleProfile, SeriesDescription_new("Profile", "crimson")),
     CentroidSeries_from_iterator(<<>>, SeriesDescription_from("Centroid"))}

FeatureSeries ==
    {TraceSeries_new(f, SeriesDescription_from("feature")) : f \in Features \ {<<>>}}

\* what add_as_series is handed
SeriesSources ==
    <<[type |-> "BinaryArrayMap", v |-> ProfileSpectrum.arrays],
      [type |-> "Precursor", v |-> ProfileSpectrum.precursor.v]>>

RawGroup == Node_set(Group_new, "class", "raw")

IsV2 == chart.kind \in {"SpectrumSVG", "FeatureSVG"}

InitChart ==
    /\ LinearIdle
    /\ ColorIdle
    /\ SeriesIdle
    /\ AxisIdle
    /\ CanvasIdle
    /\ chart \in {SpectrumSVG_default, SpectrumSVG_with_size(600, 200), FeatureSVG_default,
                  SpectrumSVG_v1_default}
    /\ outcome = [op |-> "new", arg |-> <<>>, status |-> "ok", message |-> "", calls |-> 0,
                  before |-> chart, positioned |-> <<>>]
    /\ document = <<>>

\* the call op(arg) is made and returns r
IsV2Chart(c) == c.kind \in {"SpectrumSVG", "FeatureSVG"}

\* the layers, and the domains of the two axes if established, of a chart
Layers(c) == IF IsV2Chart(c) THEN c.canvas.groups ELSE c.groups

HasXRange(c) == IF IsV2Chart(c) THEN c.x_range.some ELSE c.xaxis.some

HasYRange(c) == IF IsV2Chart(c) THEN c.y_range.some ELSE c.yaxis.some

XRange(c) == IF IsV2Chart(c) THEN c.x_range.v ELSE c.xaxis.v.coordinates

YRange(c) == IF IsV2Chart(c) THEN c.y_range.v ELSE c.yaxis.v.coordinates

\* the domains a layer pushed on chart c is positioned by, and whether the
\* layer is the rendering of a series (add_raw pushes the caller's group)
DomainsOf(c, op) ==
    [series |-> op # "add_raw",
     x |-> IF HasXRange(c) THEN Some(XRange(c)) ELSE NoRange,
     y |-> IF HasYRange(c) THEN Some(YRange(c)) ELSE NoRange]

\* history of the layers: the domains each was positioned by when pushed
Positioned(before, after, op) ==
    IF Len(Layers(after)) > Len(Layers(before))
    THEN outcome.positioned \o [i \in 1..(Len(Layers(after)) - Len(Layers(before))) |->
                                   DomainsOf(after, op)]
    ELSE outcome.positioned

Step(op, arg, r) ==
    /\ outcome.status = "ok"
    /\ outcome.calls < MaxCalls
    /\ \E ret \in {r} :
          /\ chart' = ret.chart
          /\ outcome' = [op |-> op, arg |-> <<arg>>, status |-> ret.status,
                         message |-> ret.message, calls |-> outcome.calls + 1,
                         before |-> chart,
                         positioned |-> Positioned(chart, ret.chart, op)]
    /\ document' = <<>>
    /\ UNCHANGED offChart

AxesFrom ==
    \/ /\ chart.kind = "SpectrumSVG"
       /\ \E spectrum \in Spectra : Step("axes_from", spectrum, SpectrumSVG_axes_from(chart, spectrum))
    \/ /\ chart.kind = "FeatureSVG"
       /\ \E feature \in Features : Step("axes_from", feature, FeatureSVG_axes_from(chart, feature))
    \/ /\ chart.kind = "SpectrumSVG_v1"
       /\ \E spectrum \in Spectra : Step("axes_from", spectrum, SpectrumSVG_v1_axes_from(chart, spectrum))

XLim ==
    \E xlim \in XLimits :
        \/ IsV2 /\ Step("xlim", xlim, SVG_xlim(chart, xlim))
        \/ chart.kind = "SpectrumSVG_v1" /\ Step("xlim", xlim, SpectrumSVG_v1_xlim(chart, xlim))

AddRaw == IsV2 /\ Step("add_raw", RawGroup, SVG_add_raw(chart, RawGroup))

AddSeries ==
    \/ /\ chart.kind = "SpectrumSVG"
       /\ \E made \in CallerSeries : Step("add_series", made, SVG_add_series(chart, made))
    \/ /\ chart.kind = "FeatureSVG"
       /\ \E made \in FeatureSeries : Step("add_series", made, SVG_add_series(chart, made))

DrawSeries ==
    /\ chart.kind = "SpectrumSVG_v1"
    /\ \E made \in CallerSeriesV1 : Step("draw_series", made, SpectrumSVG_v1_draw_series(chart, made))

AddAsSeries ==
    /\ IsV2
    /\ \E i \in 1 .. Len(SeriesSources) :
          Step("add_as_series", SeriesSources[i], SVG_add_as_series(chart, SeriesSources[i]))

DrawProfile ==
    \/ /\ chart.kind = "SpectrumSVG"
       /\ Step("draw_profile", ProfileSpectrum.arrays, SpectrumSVG_draw_profile(chart, ProfileSpectrum.arrays))
    \/ /\ chart.kind = "SpectrumSVG_v1"
       /\ Step("draw_profile", ProfileSpectrum.arrays, SpectrumSVG_v1_draw_profile(chart, ProfileSpectrum.arrays))

DrawCentroids ==
    \/ /\ chart.kind = "SpectrumSVG"
       /\ Step("draw_centroids", CentroidSpectrum.peaks.v, SpectrumSVG_draw_centroids(chart, CentroidSpectrum.peaks.v))
    \/ /\ chart.kind = "SpectrumSVG_v1"
       /\ Step("draw_centroids", CentroidSpectrum.peaks.v, SpectrumSVG_v1_draw_centroids(chart, CentroidSpectrum.peaks.v))

DrawDeconvolutedCentroids ==
    \/ /\ chart.kind = "SpectrumSVG"
       /\ Step("draw_deconvoluted_centroids", WideSpectrum.deconvoluted_peaks.v,
               SpectrumSVG_draw_deconvoluted_centroids(chart, WideSpectrum.deconvoluted_peaks.v))
    \/ /\ chart.kind = "SpectrumSVG_v1"
       /\ Step("draw_deconvoluted_centroids", WideSpectrum.deconvoluted_peaks.v,
               SpectrumSVG_v1_draw_deconvoluted_centroids(chart, WideSpectrum.deconvoluted_peaks.v))

DrawSpectrum ==
    \E spectrum \in Spectra :
        \/ /\ chart.kind = "SpectrumSVG"
           /\ Step("draw_spectrum", spectrum, SpectrumSVG_draw_spectrum(chart, spectrum))
        \/ /\ chart.kind = "SpectrumSVG_v1"
           /\ Step("draw_spectrum", spectrum, SpectrumSVG_v1_draw_spectrum(chart, spectrum))

Finish ==
    \/ IsV2 /\ Step("finish", <<>>, SVG_finish(chart))
    \/ chart.kind = "SpectrumSVG_v1" /\ Step("finish", <<>>, SpectrumSVG_v1_finish(chart))

MakeDocument ==
    /\ IsV2
    /\ outcome.status = "ok"
    /\ outcome.calls < MaxCalls
    /\ document' = <<SVG_make_document(chart)>>
    /\ outcome' = [op |-> "make_document", arg |-> <<>>, status |-> "ok", message |-> "",
                   calls |-> outcome.calls + 1, before |-> chart,
                   positioned |-> outcome.positioned]
    /\ UNCHANGED chart
    /\ UNCHANGED offChart

Next ==
    \/ AxesFrom
    \/ XLim
    \/ AddRaw
    \/ AddSeries
    \/ DrawSeries
    \/ AddAsSeries
    \/ DrawProfile
    \/ DrawCentroids
    \/ DrawDeconvolutedCentroids
    \/ DrawSpectrum
    \/ Finish
    \/ MakeDocument

Spec == InitChart /\ [][Next]_vars

(***************************************************************************)
(* Properties of the charts (arithmetic of real numbers).  Every state     *)
(* carries the last call, its argument and the chart before it, so a       *)
(* property of the states is a property of every call.                     *)
(***************************************************************************)
\* C12: a chart is building or finished.  finish() leaves it finished, no
\* call makes a finished chart building again, and finish() on a finished
\* chart changes nothing of it: flag, layers, axis ranges, document.
FinishedIsFinal ==
    /\ outcome.op = "finish" => chart.finished
    /\ outcome.before.finished => chart.finished
    /\ (outcome.op = "finish" /\ outcome.before.finished) =>
           /\ chart = outcome.before
           /\ outcome.status = "ok"

FinishedTwice ==
    /\ outcome.op = "finish"
    /\ outcome.before.finished
    /\ Layers(outcome.before) # <<>>
    /\ chart.finished

\* C13: an axes_from call on a chart that has its ranges only widens the
\* domain: x_range.start does not increase, x_range.end does not decrease,
\* y_range.start does not decrease, and y_range.end is 0 as before.
AxesFromOnlyWidens ==
    (/\ outcome.op = "axes_from"
     /\ outcome.status = "ok"
     /\ HasXRange(outcome.before)
     /\ HasYRange(outcome.before)) =>
        /\ HasXRange(chart) /\ HasYRange(chart)
        /\ FLe(XRange(chart).start, XRange(outcome.before).start)
        /\ FLe(XRange(outcome.before).end, XRange(chart).end)
        /\ FLe(YRange(outcome.before).start, YRange(chart).start)
        /\ YRange(outcome.before).end = F(0)
        /\ YRange(chart).end = F(0)

\* a second axes_from that moved three of the bounds outwards
AxesWidened ==
    /\ outcome.op = "axes_from"
    /\ outcome.status = "ok"
    /\ IsV2Chart(chart)
    /\ HasXRange(outcome.before)
    /\ XRange(chart).start # XRange(outcome.before).start
    /\ XRange(chart).end # XRange(outcome.before).end
    /\ YRange(chart).start # YRange(outcome.before).start

\* the least and the greatest of a non-empty set of finite values
Least(values) == CHOOSE v \in values : \A w \in values : QLe(v, w)

Greatest(values) == CHOOSE v \in values : \A w \in values : QLe(w, v)

\* the first axes_from on a chart without ranges, with its argument
FirstAxesFrom ==
    /\ outcome.op = "axes_from"
    /\ outcome.status = "ok"
    /\ ~HasXRange(outcome.before)
    /\ ~HasYRange(outcome.before)

\* C14: the first axes_from on a spectrum chart without ranges sets y_range
\* to (base-peak intensity, 0) and x_range to (0.95 * the lowest lower bound,
\* 1.05 * the highest upper bound) of the scan windows of the first scan,
\* with the bounds (50, 2000) when the spectrum has no scan; on a feature
\* chart it sets y_range to (the largest intensity, 0) and x_range to
\* (0.95 * start time, 1.05 * end time).
FirstAxesFromInfersRanges ==
    FirstAxesFrom =>
        LET arg == outcome.arg[1]
        IN  /\ HasXRange(chart) /\ HasYRange(chart)
            /\ chart.kind \in {"SpectrumSVG", "SpectrumSVG_v1"} =>
                   /\ YRange(chart) = CoordinateRange_new(arg.base_peak_intensity, F(0))
                   /\ ~arg.first_scan.some =>
                          XRange(chart) = CoordinateRange_new(Rat(475, 10), F(2100))
                   /\ (arg.first_scan.some /\ arg.first_scan.v # <<>>) =>
                          LET windows == arg.first_scan.v
                              lo == Least({windows[k].lower_bound : k \in 1 .. Len(windows)})
                              hi == Greatest({windows[k].upper_bound : k \in 1 .. Len(windows)})
                          IN  XRange(chart) = CoordinateRange_new(QMul(Rat(95, 100), lo), QMul(Rat(105, 100), hi))
            /\ chart.kind = "FeatureSVG" =>
                   /\ YRange(chart) =
                          CoordinateRange_new(Greatest({arg[k][3] : k \in 1 .. Len(arg)}), F(0))
                   /\ XRange(chart) = CoordinateRange_new(QMul(Rat(95, 100), arg[1][2]),
                                                          QMul(Rat(105, 100), arg[Len(arg)][2]))
            /\ IsV2Chart(chart) =>
                   /\ chart.canvas.x_axis.scale.domain = XRange(chart)
                   /\ chart.canvas.y_axis.scale.domain = YRange(chart)

\* the first axes_from took its x_range from two scan windows
RangesFromTwoWindows ==
    /\ FirstAxesFrom
    /\ chart.kind = "SpectrumSVG"
    /\ outcome.arg[1] = WideSpectrum
    /\ XRange(chart) = CoordinateRange_new(F(38), F(2520))
    /\ YRange(chart) = CoordinateRange_new(F(250), F(0))

\* the calls that end in Canvas::update_scales and do nothing else to the canvas
UpdatesScales == outcome.op \in {"axes_from", "xlim"} /\ outcome.status = "ok" /\ IsV2Chart(chart)

\* C15: update_scales replaces the two domains of the canvas by the ranges
\* it is handed and leaves the rest of the canvas: the pixel ranges stay
\* (0, width) and (0, height), and width, height and the layers stay.
UpdateScalesReplacesDomains ==
    UpdatesScales =>
        LET canvas == chart.canvas
            old == outcome.before.canvas
        IN  /\ canvas.x_axis.scale.domain = chart.x_range.v
            /\ canvas.y_axis.scale.domain = chart.y_range.v
            /\ canvas.x_axis.scale.range = CoordinateRange_new(F(0), F(canvas.width))
            /\ canvas.y_axis.scale.range = CoordinateRange_new(F(0), F(canvas.height))
            /\ canvas.width = old.width
            /\ canvas.height = old.height
            /\ canvas.groups = old.groups

\* xlim replaced the x domain of a canvas that holds a layer
ScalesUpdatedUnderLayers ==
    /\ UpdatesScales
    /\ outcome.op = "xlim"
    /\ chart.canvas.groups # <<>>
    /\ chart.canvas.x_axis.scale.domain # outcome.before.canvas.x_axis.scale.domain

IsPrefix(a, b) == Len(a) <= Len(b) /\ SubSeq(b, 1, Len(a)) = a

\* C16: the layers of a canvas only grow at the end: every call leaves the
\* layers it found, in their order, as the first layers; push_layer (under
\* add_raw) adds its layer as the last.  to_svg (under make_document) emits
\* one data group holding the layers in that order, then the group of the X
\* axis, then the group of the Y axis, and leaves the canvas as it was.
LayersAreAppendOnly ==
    IsV2Chart(chart) =>
        /\ IsPrefix(outcome.before.canvas.groups, chart.canvas.groups)
        /\ (outcome.op = "add_raw" /\ outcome.status = "ok") =>
               chart.canvas.groups = Append(outcome.before.canvas.groups, outcome.arg[1])
        /\ (outcome.op = "make_document" /\ document # <<>> /\ document[1] # Panic) =>
               LET group == document[1].nodes[Len(document[1].nodes)]
               IN  /\ chart = outcome.before
                   /\ group.attrs["class"] = "canvas"
                   /\ Len(group.nodes) = 3
                   /\ group.nodes[1].attrs["class"] = "data-canvas"
                   /\ group.nodes[1].nodes = chart.canvas.groups
                   /\ group.nodes[2].attrs["class"] = "x-axis"
                   /\ group.nodes[3].attrs["class"] = "y-axis"

\* a document made of a canvas with two different layers
TwoLayersComposed ==
    /\ IsV2Chart(chart)
    /\ outcome.op = "make_document"
    /\ document # <<>>
    /\ document[1] # Panic
    /\ Len(chart.canvas.groups) = 2
    /\ chart.canvas.groups[1] # chart.canvas.groups[2]

\* the ids of the layers of a chart that carry one, in layer order
LayerIds(c) ==
    LET withId == SelectSeq(c.canvas.groups, LAMBDA g : "id" \in DOMAIN g.attrs)
    IN  [k \in 1 .. Len(withId) |-> withId[k].attrs["id"]]

\* C17: the series layers of a chart carry pairwise different ids, whatever
\* calls of add_series, add_as_series, draw_profile, draw_centroids and
\* draw_deconvoluted_centroids drew them.
SeriesLayersHaveDistinctIds ==
    IsV2Chart(chart) =>
        LET ids == LayerIds(chart)
        IN  \A i, j \in 1 .. Len(ids) : i # j => ids[i] # ids[j]

\* the layers of the registered series alone: the n-th series under a label
\* has the id label-n
RegisteredSeriesAreNumbered ==
    (/\ IsV2Chart(chart)
     /\ outcome.op \in {"add_series", "add_as_series", "draw_centroids", "draw_deconvoluted_centroids"}
     /\ outcome.status = "ok") =>
        LET made == chart.canvas.groups[Len(chart.canvas.groups)]
        IN  "id" \in DOMAIN made.attrs =>
                \E label \in DOMAIN chart.series :
                    made.attrs["id"] = label \o "-" \o usize_to_string(Len(chart.series[label]))

\* the calls that draw one series, and xlim
DrawCalls ==
    {"add_series", "add_as_series", "draw_profile", "draw_centroids", "draw_deconvoluted_centroids",
     "draw_series", "xlim"}

\* C20: drawing a series, or xlim, on a chart whose axis domain was never
\* established fails with an error of its own that says so, not with the
\* failure of an unchecked unwrap, and appends no layer.
UnsetAxisIsReported ==
    (outcome.op \in DrawCalls /\ ~HasXRange(outcome.before)) =>
        /\ outcome.status # "ok"
        /\ outcome.message # UNWRAP_NONE
        /\ Layers(chart) = Layers(outcome.before)

\* what the calls do instead: they panic in Option::unwrap, with no layer
\* appended; add_series has registered the description by then, and the
\* calls that take a colour have moved the cycle on
UnsetAxisPanics ==
    (outcome.op \in DrawCalls /\ ~HasXRange(outcome.before)) =>
        /\ outcome.status = "panic"
        /\ outcome.message = UNWRAP_NONE
        /\ Layers(chart) = Layers(outcome.before)

(***************************************************************************)
(* Rendering of a series without points, in both generations.              *)
(***************************************************************************)
\* a to_svg of either generation has just returned for a point-list series
\* whose list is empty
EmptySeriesRendered ==
    /\ last.op \in {"to_svg", "to_svg_v1"}
    /\ series.kind \in PointListKinds
    /\ Items(series) = <<>>

\* C21: to_svg on a series with zero points, constructed empty or emptied by
\* slice_x, returns a layer (a group element) and never fails, for every
\* series kind and in both generations of the renderer.
EmptySeriesRendersLayer ==
    EmptySeriesRendered =>
        /\ rendered[1].group # Panic
        /\ rendered[1].group.tag = "g"

\* what the code does: the second generation returns its group for an empty
\* list, the first generation fails in the unwrap of the minimum
EmptySeriesFailsInV1Only ==
    EmptySeriesRendered =>
        IF last.op = "to_svg_v1" THEN rendered[1].group = Panic
        ELSE rendered[1].group.tag = "g"

(***************************************************************************)
(* Calls of Canvas::transform: a canvas of some size gets the domains of   *)
(* its two scales from update_scales, then one data point is transformed.  *)
(***************************************************************************)
\* width and height of the canvases: the default, that of the tests, a small one
CanvasSizes == {<<1400, 600>>, <<600, 200>>, <<24, 12>>}

\* domains: the grid in both orientations and degenerate, the m/z window of
\* the tests, and the intensity domains (max intensity, 0) of a chart
CanvasDomains ==
    {CoordinateRange_new(F(a), F(b)) : a, b \in {0, 2, MaxCoord}}
    \cup {CoordinateRange_new(F(0), F(1000)), CoordinateRange_new(F(10000), F(0)),
          CoordinateRange_new(F(100), F(0))}

\* the value is stored as it is by the arithmetic in use
Representable(q) == Fl(q) = q

InitCanvas ==
    /\ numeric \in {"exact", "rounded"}
    /\ crange = "none"
    /\ value = "none"
    /\ pixels = "none"
    /\ style = "none"
    /\ call = "none"
    /\ res = "none"
    /\ ColorIdle
    /\ SeriesIdle
    /\ AxisIdle
    /\ ChartIdle
    /\ \E size \in CanvasSizes, x_range, y_range \in CanvasDomains :
          \E x \in {x_range.start, x_range.end, F(1), F(3)},
             y \in {y_range.start, y_range.end, F(1), F(3)} :
                /\ \A q \in {F(size[1]), F(size[2]), x_range.start, x_range.end,
                             y_range.start, y_range.end, x, y} : Representable(q)
                /\ canvasCall = [canvas |-> Canvas_update_scales(Canvas_new(size[1], size[2]),
                                                                 x_range, y_range),
                                 x |-> x, y |-> y]
    /\ pixel = <<>>

TransformPoint ==
    /\ pixel = <<>>
    /\ pixel' = <<Canvas_transform(canvasCall.canvas, canvasCall.x, canvasCall.y)>>
    /\ UNCHANGED canvasCall
    /\ UNCHANGED linearVars
    /\ UNCHANGED offCanvas

NextCanvas == TransformPoint

SpecCanvas == InitCanvas /\ [][NextCanvas]_vars

\* the affine map that sends domain.start to 0 and domain.end to extent, at v
AffineImage(domain, extent, v) ==
    QDiv(QMul(F(extent), QSub(v, domain.start)), QSub(domain.end, domain.start))

\* transform has returned for a canvas whose two domains are non-degenerate
TransformedOnProperDomains ==
    /\ pixel # <<>>
    /\ NonDegenerate(canvasCall.canvas.x_axis.scale.domain)
    /\ NonDegenerate(canvasCall.canvas.y_axis.scale.domain)

\* C22: on a canvas of width w and height h with non-degenerate domains,
\* transform sends the start of the x domain to pixel column 0 and its end to
\* column w, the start of the y domain to pixel row 0 and its end to row h,
\* and every other value to its image under the affine map through these
\* (in real arithmetic); so with the y domain (max intensity, 0), intensity 0
\* is on row h and the maximum intensity on row 0.
CanvasTransformIsAffine ==
    TransformedOnProperDomains =>
        LET canvas == canvasCall.canvas
            xd == canvas.x_axis.scale.domain
            yd == canvas.y_axis.scale.domain
        IN  /\ canvasCall.x = xd.start => pixel[1][1] = F(0)
            /\ canvasCall.x = xd.end => pixel[1][1] = F(canvas.width)
            /\ canvasCall.y = yd.start => pixel[1][2] = F(0)
            /\ canvasCall.y = yd.end => pixel[1][2] = F(canvas.height)
            /\ numeric = "exact" =>
                   pixel[1] = <<AffineImage(xd, canvas.width, canvasCall.x),
                                AffineImage(yd, canvas.height, canvasCall.y)>>

\* intensity 0 under the domain (10000, 0) came out on the bottom row of a
\* canvas 200 high, and m/z 3 of 0 .. 1000 on column 9/5 of 600
IntensityZeroOnBottomRow ==
    /\ TransformedOnProperDomains
    /\ canvasCall.canvas.y_axis.scale.domain = CoordinateRange_new(F(10000), F(0))
    /\ canvasCall.canvas.x_axis.scale.domain = CoordinateRange_new(F(0), F(1000))
    /\ canvasCall.canvas.height = 200
    /\ canvasCall.x = F(3)
    /\ canvasCall.y = F(0)
    /\ pixel[1] = <<Rat(9, 5), F(200)>>

(***************************************************************************)
(* Slicing of the series a chart draws.                                    *)
(***************************************************************************)
\* the calls that draw exactly one series
SeriesCalls ==
    {"add_series", "add_as_series", "draw_series", "draw_profile", "draw_centroids",
     "draw_deconvoluted_centroids"}

\* the series a call builds of its argument, before colour and tag are set
BuiltSeries(c, op, arg) ==
    IF IsV2Chart(c)
    THEN CASE op = "add_series" -> arg
           [] op = "add_as_series" -> as_series(arg)
           [] op = "draw_profile" ->
                ContinuousSeries_from_iterators(arg, SeriesDescription_from("profile"))
           [] op = "draw_centroids" ->
                CentroidSeries_from_iterator(arg, SeriesDescription_from("centroid"))
           [] op = "draw_deconvoluted_centroids" ->
                DeconvolutedCentroidSeries_from_iterator(arg, SeriesDescription_from("deconvoluted-centroid"))
    ELSE CASE op = "draw_series" -> arg
           [] op = "draw_profile" ->
                ContinuousSeries_from_iterators(arg, SeriesDescription_from("Profile"))
           [] op = "draw_centroids" ->
                CentroidSeries_from_iterator(arg, SeriesDescription_from("Centroid"))
           [] op = "draw_deconvoluted_centroids" ->
                DeconvolutedCentroidSeries_from_iterator(arg, SeriesDescription_from("Deconvolved"))

\* the colours and tags a series of a chart can carry
Colors(c, s) == {c.colors.colors[k] : k \in 1 .. Len(c.colors.colors)} \cup {s.description.color}

Tags == {""} \cup {usize_to_string(n) : n \in 1 .. MaxCalls + 1}

YOf(s, item) == IF HoldsPeaks(s) THEN item.intensity ELSE item[2]

\* the series with the items inside the x range only, each once and in their
\* order; a precursor is flagged by whether its m/z is inside
KeptInX(s, x_range) ==
    IF s.kind = "Precursor"
    THEN [s EXCEPT !.in_frame = FLe(x_range.start, s.mz) /\ FLe(s.mz, x_range.end)]
    ELSE WithItems(s, SelectSeq(Items(s),
            LAMBDA item : FLe(x_range.start, XOf(s, item)) /\ FLe(XOf(s, item), x_range.end)))

\* of these, the items inside the y range
KeptInXAndY(s, x_range, y_range) ==
    IF s.kind = "Precursor" THEN KeptInX(s, x_range)
    ELSE WithItems(s, SelectSeq(Items(KeptInX(s, x_range)),
            LAMBDA item : /\ FLe(CoordinateRange_min(y_range), YOf(s, item))
                          /\ FLe(YOf(s, item), CoordinateRange_max(y_range))))

\* the layer of series s on the axes of chart c
LayerOf(c, s) ==
    IF IsV2Chart(c) THEN PlotSeries_to_svg(s, c.canvas)
    ELSE PlotSeries_to_svg_v1(s, c.xaxis.v, c.yaxis.v)

\* the call has pushed one layer, and it is the layer of the built series,
\* under some colour and tag, restricted to the X domain of the chart at the
\* call, and to its Y domain as well if in_y
PushedLayerOfKept(in_y) ==
    /\ Len(Layers(chart)) = Len(Layers(outcome.before)) + 1
    /\ LET built == BuiltSeries(outcome.before, outcome.op, outcome.arg[1])
       IN  \E color \in Colors(outcome.before, built), tag \in Tags :
              LET styled == [built EXCEPT !.description.color = color, !.description.tag = tag]
              IN  Layers(chart)[Len(Layers(chart))] =
                      LayerOf(outcome.before,
                              IF in_y
                              THEN KeptInXAndY(styled, XRange(outcome.before), YRange(outcome.before))
                              ELSE KeptInX(styled, XRange(outcome.before)))

\* a call that draws one series has returned
SeriesDrawn ==
    /\ outcome.op \in SeriesCalls
    /\ outcome.status = "ok"
    /\ HasXRange(outcome.before)
    /\ HasYRange(outcome.before)

PrecursorSlicedInY == last.op = "slice_y" /\ series.kind = "Precursor"

\* the larger of the two bounds of the call
UpperSliceBound == IF QLe(last.start, last.end) THEN last.end ELSE last.start

\* C24: slice_y(a, b) on a precursor clamps the stored intensity to
\* max(a, b): the intensity afterwards is the smaller of the intensity
\* before and max(a, b), so an intensity at or below the bound is kept; the
\* rest of the series is as before.
PrecursorSliceYClamps ==
    PrecursorSlicedInY =>
        /\ series.intensity =
              (IF QLe(last.before.intensity, UpperSliceBound) THEN last.before.intensity
               ELSE UpperSliceBound)
        /\ [series EXCEPT !.intensity = last.before.intensity] = last.before

\* what the code does: the intensity is overwritten with max(a, b), whatever
\* it was
PrecursorSliceYOverwrites ==
    PrecursorSlicedInY =>
        /\ series.intensity = UpperSliceBound
        /\ [series EXCEPT !.intensity = last.before.intensity] = last.before

(***************************************************************************)
(* The orientations to_svg of an axis supports.                            *)
(***************************************************************************)
\* the rendered axis is complete: the domain line, then the ticks, then the
\* group of the label if there is one, holding the text of the label
RendersFully(node, props) ==
    /\ node # Panic
    /\ node.tag = "g"
    /\ Len(node.nodes) = 1 + Len(TickGroups(node)) + (IF props.label.some THEN 1 ELSE 0)
    /\ node.nodes[1].tag = "path"
    /\ node.nodes[1].attrs["class"] = "domain"
    /\ props.label.some =>
           LET titled == node.nodes[Len(node.nodes)]
           IN  /\ titled.tag = "g"
               /\ Len(titled.nodes) = 1
               /\ titled.nodes[1].tag = "text"
               /\ titled.nodes[1].nodes = <<props.label.v>>

\* C25: to_svg renders a Bottom and a Left axis fully, with or without a
\* label; a Top axis renders, fully, exactly when it has no label, and fails
\* as not implemented when it has one; a Right axis fails as not implemented
\* with or without a label.
AxisRendersByOrientation ==
    drawn # <<>> =>
        LET props == axisArgs.props
            o == props.axis_orientation
        IN  /\ o \in {"Bottom", "Left"} => RendersFully(drawn[1], props)
            /\ (o = "Top" /\ ~props.label.some) => RendersFully(drawn[1], props)
            /\ (o = "Top" /\ props.label.some) => drawn[1] = Panic
            /\ o = "Right" => drawn[1] = Panic

\* a Top axis without a label was rendered with its ticks, and not moved
TopAxisRendered ==
    /\ drawn # <<>>
    /\ axisArgs.props.axis_orientation = "Top"
    /\ ~axisArgs.props.label.some
    /\ drawn[1] # Panic
    /\ Len(TickGroups(drawn[1])) = 6
    /\ "transform" \notin DOMAIN drawn[1].attrs

\* a Right axis without a label was asked for, and to_svg failed
RightAxisFailed ==
    /\ drawn # <<>>
    /\ axisArgs.props.axis_orientation = "Right"
    /\ ~axisArgs.props.label.some
    /\ drawn[1] = Panic

(***************************************************************************)
(* The layers of a chart and the domains of its axes.                      *)
(***************************************************************************)
\* the document of the chart was composed by the last call: make_document
\* of the v2 charts, the first finish of the first generation chart
DocumentComposed ==
    /\ outcome.status = "ok"
    /\ \/ outcome.op = "make_document"
       \/ /\ outcome.op = "finish"
          /\ ~IsV2Chart(chart)
          /\ ~outcome.before.finished

\* the layers of series the composed document holds, by position
SeriesLayers == {i \in DOMAIN outcome.positioned : outcome.positioned[i].series}

\* C26: whatever the order of the axes_from, xlim and drawing calls, when
\* the document is composed every layer of a series was positioned by the
\* X and Y domains the axes of the document are drawn with.
LayersFollowDomains ==
    DocumentComposed =>
        \A i \in SeriesLayers :
            /\ outcome.positioned[i].x = Some(XRange(outcome.before))
            /\ outcome.positioned[i].y = Some(YRange(outcome.before))

\* what the code does: a layer is positioned once, by the domains of the
\* moment it is pushed, and no later call touches it
LayersKeepDomainsOfPush ==
    /\ Len(outcome.positioned) = Len(Layers(chart)) \/ chart.finished
    /\ (outcome.status = "ok" /\ outcome.op \in {"axes_from", "xlim"}) =>
           /\ IsPrefix(Layers(outcome.before), Layers(chart))
           /\ Len(Layers(chart)) = Len(Layers(outcome.before))

\* a document composed after xlim narrowed the domain under a drawn layer
ComposedOverStaleLayer ==
    /\ DocumentComposed
    /\ \E i \in SeriesLayers : outcome.positioned[i].x # Some(XRange(outcome.before))

(***************************************************************************)
(* The ranges of a v2 chart and the scales of its canvas.                  *)
(***************************************************************************)
\* C27: after any calls on a v2 chart, whenever x_range and y_range are
\* both set the domains of the scales of the canvas are equal to them.
CanvasDomainsAreTheRanges ==
    (IsV2Chart(chart) /\ chart.x_range.some /\ chart.y_range.some) =>
        /\ chart.canvas.x_axis.scale.domain = chart.x_range.v
        /\ chart.canvas.y_axis.scale.domain = chart.y_range.v

\* axes_from changed both ranges of a chart that had ranges, and the
\* scales of the canvas followed them
ScalesFollowedRanges ==
    /\ IsV2Chart(chart)
    /\ outcome.op = "axes_from"
    /\ outcome.status = "ok"
    /\ outcome.before.x_range.some
    /\ outcome.before.canvas.x_axis.scale.domain = outcome.before.x_range.v
    /\ outcome.before.x_range.v # chart.x_range.v
    /\ outcome.before.y_range.v # chart.y_range.v
    /\ chart.canvas.x_axis.scale.domain = chart.x_range.v
    /\ chart.canvas.y_axis.scale.domain = chart.y_range.v
    /\ chart.canvas.x_axis.scale.domain # CoordinateRange_new(F(0), F(chart.canvas.width))

(***************************************************************************)
(* The cursor of the colour cycle.                                         *)
(***************************************************************************)
\* the cursor next() looked up in its last call: it is advanced by one
\* after the lookup
LookupCursor == index - 1

\* C28: after any number of next() calls on a default cycle the cursor of
\* the lookup is an index of the palette and next() returned a colour, not
\* None: the unwrap of the charts on colors.next() does not fail.
NextAlwaysYieldsColor ==
    /\ index \in 0 .. Len(colors) - 1
    /\ \A k \in 1 .. Len(returned) : returned[k].some
    /\ returned # <<>> =>
           /\ LookupCursor \in 0 .. Len(colors) - 1
           /\ returned[Len(returned)] = Some(colors[LookupCursor + 1])

\* the cycle went past the end of its palette several times and the call
\* after the reset of the cursor returned the first colour
ColorAfterReset ==
    /\ Len(returned) > 3 * Len(colors)
    /\ index = 1
    /\ returned[Len(returned)] = Some(colors[1])

(***************************************************************************)
(* draw_spectrum on a chart whose X domain is set.                         *)
(***************************************************************************)
\* C29: draw_spectrum on a chart that has an X domain, in particular one
\* set by xlim, leaves x_range as it was, whatever the spectrum: it takes
\* axes from the spectrum only when there is no X domain.
DrawSpectrumKeepsXRange ==
    (outcome.op = "draw_spectrum" /\ HasXRange(outcome.before)) =>
        /\ HasXRange(chart)
        /\ XRange(chart) = XRange(outcome.before)

\* the X domain (200, 800) of an xlim call was kept by a draw_spectrum of
\* the spectrum whose scan windows span 40 to 2400, which pushed layers
OverrideKeptUnderWiderSpectrum ==
    /\ outcome.op = "draw_spectrum"
    /\ outcome.status = "ok"
    /\ IsV2Chart(chart)
    /\ outcome.arg = <<WideSpectrum>>
    /\ HasXRange(outcome.before)
    /\ XRange(outcome.before) = CoordinateRange_new(F(200), F(800))
    /\ XRange(chart) = CoordinateRange_new(F(200), F(800))
    /\ Len(Layers(chart)) > Len(Layers(outcome.before))

(***************************************************************************)
(* The X domain axes_from leaves.                                          *)
(***************************************************************************)
\* both bounds finite, and in order
FiniteAndOrdered(c) == CoordinateRange_is_well_formed(c) /\ FLe(c.start, c.end)

\* the last call was axes_from on a spectrum, and came back
AxesTakenFromSpectrum ==
    /\ outcome.op = "axes_from"
    /\ outcome.status = "ok"
    /\ chart.kind \in {"SpectrumSVG", "SpectrumSVG_v1"}

\* C30: after axes_from on any spectrum, one without a scan and one whose
\* first scan has no scan window included, both bounds of x_range are
\* finite and start <= end.
XRangeWellFormedAfterAxesFrom ==
    AxesTakenFromSpectrum =>
        /\ HasXRange(chart)
        /\ FiniteAndOrdered(XRange(chart))

\* what the code does: the range is finite and ordered when the spectrum has
\* no scan or a first scan with a window (and, in the first generation,
\* the axis is built by this call); a first scan without a window on a
\* chart without X domain gives the range (inf, -inf)
XRangeWellFormedWithWindows ==
    AxesTakenFromSpectrum =>
        LET spectrum == outcome.arg[1]
        IN  /\ HasXRange(chart)
            /\ ((~spectrum.first_scan.some \/ spectrum.first_scan.v # <<>>)
                  /\ (IsV2Chart(chart) \/ ~HasXRange(outcome.before)))
                  => FiniteAndOrdered(XRange(chart))
            /\ (spectrum.first_scan.some /\ spectrum.first_scan.v = <<>>
                  /\ ~HasXRange(outcome.before))
                  => XRange(chart) = CoordinateRange_new(PosInf, NegInf)

====
